---- MODULE Spec2Model ----
(***************************************************************************)
(* Price-history analytics and alerting engine of chrisifm/GoogleFlights:  *)
(* price_analytics.js (updatePriceAnalytics, detectPriceChanges),          *)
(* send_notifications.js (canSendNotification, sendPriceAlert) and         *)
(* evaluate_price.js (sendPriceAlert, runPriceEvaluator), over the tables  *)
(* flights, price_analytics, price_changes and notifications; with the     *)
(* ingress of index.js (insertFlight) and the web scraper's job queue      *)
(* (getNextPendingJob, resetJobsToPending, runWebScraper) over the table   *)
(* config_flights.                                                         *)
(*                                                                         *)
(* Money: prices are whole currency units; the values the code rounds to   *)
(* two decimals (current_avg_price, current_median_price) are kept in      *)
(* hundredths.  Time: hours since the start of the observation.            *)
(***************************************************************************)
EXTENDS Integers, Sequences, FiniteSets, TLC

\* ------------------------------------------------------------------ bounds

\* Rows the flights table may hold (samples are appended, never deleted).
MaxFlights == 2
\* The hour at which the clock of the engine stops advancing.
MaxHours == 12
\* Rows price_changes may hold, and POSTs the push transport may receive.
MaxAudit == 2
\* The samples of a store loaded before an evaluation.
MaxBatch == 3
\* The failed scrapes a job may count in attempts.
MaxFailures == 3
\* The completed scrapes a job may count in iterations.
MaxIterations == 1

\* -------------------------------------------------------- program constants

\* alert_threshold of a new record, and the fallback of a falsy stored one.
DefaultThreshold == 400
\* runWebScraper: the attempts from which a failed job is not retried.
RetryLimit == 3
\* validateFlightData: the price above which an observation is refused.
PriceLimit == 999999
\* calculateTrend: the change, in percent, beyond which a trend is up or down.
TrendPercent == 5
\* updatePriceAnalytics: the windows last-24h, last-7d and 7d-to-14d, in hours.
Last24Hours == 24
Last7dHours == 168
Older7dHours == 336
\* Cool-down of canSendNotification, in hours.
CooldownHours == 12

\* ------------------------------------------------------------------ domains

\* The monitored routes of the evaluated flight date (from-to).
Routes == {[from |-> "MEX", to |-> "CUN", flight_date |-> "2024-12-01"]}

\* The routes of a batch evaluation: two cities out of one origin, and one
\* of them on a second date.
BatchRoutes ==
    Routes \cup {[from |-> "MEX", to |-> "GDL", flight_date |-> "2024-12-01"],
                 [from |-> "MEX", to |-> "CUN", flight_date |-> "2024-12-02"]}
\* Prices the scraper may observe.
Prices == {4500, 5000}
\* Per-route alert_threshold values an operator may store in price_analytics.
Thresholds == {0, 400, 600}
\* One clock step: half a cool-down.
TickHours == CooldownHours \div 2

\* Inputs of the change detector when it is exercised on arbitrary records.
ClassifyMins == {500, 1000}
ClassifyAvgs == {60000, 90000, 120000}
ClassifyPrices == {550, 700, 1000, 1300, 1450, 1500}

NoAnalytics == [exists |-> FALSE]
NoTime == 0 - 1

\* ------------------------------------------------------------ pure helpers

Abs(x) == IF x < 0 THEN 0 - x ELSE x

Min2(a, b) == IF a < b THEN a ELSE b

Max2(a, b) == IF a > b THEN a ELSE b

\* Math.round(num / den * 100), the value in hundredths (num >= 0, den > 0).
Round100(num, den) == (200 * num + den) \div (2 * den)

RECURSIVE SeqSum(_)
SeqSum(s) == IF s = << >> THEN 0 ELSE Head(s) + SeqSum(Tail(s))

RECURSIVE SeqMin(_)
SeqMin(s) == IF Len(s) = 1 THEN s[1] ELSE Min2(s[1], SeqMin(Tail(s)))

RECURSIVE SeqMax(_)
SeqMax(s) == IF Len(s) = 1 THEN s[1] ELSE Max2(s[1], SeqMax(Tail(s)))

\* The largest r in lo..hi with r * r <= n (lo * lo <= n).
RECURSIVE SqrtBetween(_, _, _)
SqrtBetween(n, lo, hi) ==
    IF lo = hi THEN lo
    ELSE LET mid == (lo + hi + 1) \div 2
         IN  IF mid * mid <= n THEN SqrtBetween(n, mid, hi)
             ELSE SqrtBetween(n, lo, mid - 1)

\* floor(Math.sqrt(n)), n below 2^30.
ISqrt(n) == SqrtBetween(n, 0, Min2(n, 32767))

\* The largest k in lo..hi with (200 * r + k)^2 <= 40000 * n, where r is
\* ISqrt(n): the next two decimals of the root.
RECURSIVE CentiBetween(_, _, _, _)
CentiBetween(n, r, lo, hi) ==
    IF lo = hi THEN lo
    ELSE LET mid == (lo + hi + 1) \div 2
         IN  IF 400 * r * mid + mid * mid <= 40000 * (n - r * r)
             THEN CentiBetween(n, r, mid, hi)
             ELSE CentiBetween(n, r, lo, mid - 1)

\* floor(200 * Math.sqrt(n)).
Sqrt200(n) == 200 * ISqrt(n) + CentiBetween(n, ISqrt(n), 0, 199)

\* The sum of (s[i] - s[j])^2 over the pairs i < j, which is
\* Len(s) * sum(s[i]^2) - sum(s)^2: Len(s)^2 times the variance.
RECURSIVE PairSquares(_)
PairSquares(s) ==
    IF Len(s) <= 1 THEN 0
    ELSE SeqSum([j \in 1..(Len(s) - 1) |-> (s[1] - s[j + 1]) * (s[1] - s[j + 1])])
             + PairSquares(Tail(s))

\* [...prices].sort((a, b) => a - b): insertion into an ascending sequence.
RECURSIVE SortAsc(_)
InsertAsc(x, s) ==
    LET k == Cardinality({i \in 1..Len(s) : s[i] <= x})
    IN  SubSeq(s, 1, k) \o <<x>> \o SubSeq(s, k + 1, Len(s))
SortAsc(s) == IF s = << >> THEN << >> ELSE InsertAsc(Head(s), SortAsc(Tail(s)))

\* --------------------------------------------------- price_analytics.js

\* CalculateAdvancedStats with the upper of the two central elements as the
\* median of an even number of prices.
CalculateAdvancedStatsUpperMedian(prices) ==
    IF Len(prices) = 0
    THEN [samples |-> 0]
    ELSE LET sortedPrices == SortAsc(prices)
             length == Len(prices)
         IN  [min |-> SeqMin(prices),
              max |-> SeqMax(prices),
              avg |-> Round100(SeqSum(prices), length),
              median |-> Round100(sortedPrices[length \div 2 + 1], 1),
              volatility |-> (Sqrt200(PairSquares(prices)) + length) \div (2 * length),
              samples |-> length]

\* calculateAdvancedStats(prices), lines 94-126: null (samples = 0) for no
\* prices; min, max, avg, median and volatility rounded to two decimals
\* (avg, median and volatility in hundredths).  The volatility is
\* Math.round(100 * sqrt(variance)), the variance being PairSquares over
\* length^2.
CalculateAdvancedStats(prices) ==
    IF Len(prices) = 0
    THEN [samples |-> 0]
    ELSE LET sortedPrices == SortAsc(prices)
             length == Len(prices)
             median2 == IF length % 2 = 0
                        THEN sortedPrices[length \div 2] + sortedPrices[length \div 2 + 1]
                        ELSE 2 * sortedPrices[length \div 2 + 1]
         IN  [min |-> SeqMin(prices),
              max |-> SeqMax(prices),
              avg |-> Round100(SeqSum(prices), length),
              median |-> Round100(median2, 2),
              volatility |-> (Sqrt200(PairSquares(prices)) + length) \div (2 * length),
              samples |-> length]

\* The odd part of a positive number.
RECURSIVE OddPart(_)
OddPart(n) == IF n % 2 = 0 THEN OddPart(n \div 2) ELSE n

\* sum / length is a binary fraction, which a double holds exactly; any other
\* mean is rounded to 53 bits (lines 132-133).
MeanIsExact(prices) == SeqSum(prices) % OddPart(Len(prices)) = 0

\* calculateTrend(recentPrices, olderPrices), lines 129-140: the labels the
\* call may return.  changePercent is (recentAvg - olderAvg) / olderAvg * 100
\* in double arithmetic; with both averages brought to the denominator
\* Len(recentPrices) * Len(olderPrices), changePercent > 5 is
\* 100 * difference > 5 * older (prices are not negative).  Integer prices
\* put changePercent either on 5 (or -5) or far from it.  On 5 with exact
\* means the quotient is the double of 0.05 and the product is 5; with a
\* rounded mean the product may come out above 5 (calculateTrend([98],
\* [80, 80, 120]) is 5.000000000000005), so the label is 'up' for some such
\* arguments and 'stable' for others; likewise on -5.
CalculateTrend(recentPrices, olderPrices) ==
    IF Len(recentPrices) = 0 \/ Len(olderPrices) = 0
    THEN {"stable"}
    ELSE LET difference == SeqSum(recentPrices) * Len(olderPrices)
                               - SeqSum(olderPrices) * Len(recentPrices)
             older == SeqSum(olderPrices) * Len(recentPrices)
             rounded == ~(MeanIsExact(recentPrices) /\ MeanIsExact(olderPrices))
         IN  IF 100 * difference > TrendPercent * older THEN {"up"}
             ELSE IF 100 * difference < (0 - TrendPercent) * older THEN {"down"}
             ELSE IF rounded /\ older > 0 /\ 100 * difference = TrendPercent * older
             THEN {"stable", "up"}
             ELSE IF rounded /\ older > 0 /\ 100 * difference = (0 - TrendPercent) * older
             THEN {"stable", "down"}
             ELSE {"stable"}

\* GenerateRouteId without the destination.
GenerateRouteIdOfOrigin(route) ==
    route.from \o "::" \o route.flight_date

\* generateRouteId (lines 143-145): `${fromCity}::${toCity}::${flightDate}`.
GenerateRouteId(route) ==
    route.from \o "::" \o route.to \o "::" \o route.flight_date

\* The keys of table price_analytics.
RouteIds == {GenerateRouteId(route) : route \in BatchRoutes}

\* Classify with the threshold rule tried before the new-minimum rule.
ClassifySwapped(analytics, newPrice) ==
    LET oldMin == analytics.all_time_min_price
        oldAvg == analytics.current_avg_price
        priceChange == newPrice - oldMin
    IN  IF Abs(priceChange) >= analytics.alert_threshold
        THEN [changeType |-> "significant_drop", shouldAlert |-> TRUE,
              priceChange |-> priceChange]
        ELSE IF newPrice < oldMin
        THEN [changeType |-> "new_minimum", shouldAlert |-> FALSE,
              priceChange |-> priceChange]
        ELSE IF 200 * newPrice > 3 * oldAvg
        THEN [changeType |-> "price_spike", shouldAlert |-> FALSE,
              priceChange |-> priceChange]
        ELSE [changeType |-> "normal_fluctuation", shouldAlert |-> FALSE,
              priceChange |-> priceChange]

\* Classify with the spike rule tried before the threshold rule.
ClassifySpikeFirst(analytics, newPrice) ==
    LET oldMin == analytics.all_time_min_price
        oldAvg == analytics.current_avg_price
        priceChange == newPrice - oldMin
    IN  IF newPrice < oldMin
        THEN [changeType |-> "new_minimum",
              shouldAlert |-> (Abs(priceChange) >= analytics.alert_threshold),
              priceChange |-> priceChange]
        ELSE IF 200 * newPrice > 3 * oldAvg
        THEN [changeType |-> "price_spike", shouldAlert |-> FALSE, priceChange |-> priceChange]
        ELSE IF Abs(priceChange) >= analytics.alert_threshold
        THEN [changeType |-> "significant_drop", shouldAlert |-> TRUE, priceChange |-> priceChange]
        ELSE [changeType |-> "normal_fluctuation", shouldAlert |-> FALSE, priceChange |-> priceChange]

\* Classify with every new minimum alerting, whatever the threshold.
ClassifyAlwaysAlertMin(analytics, newPrice) ==
    LET oldMin == analytics.all_time_min_price
        oldAvg == analytics.current_avg_price
        priceChange == newPrice - oldMin
    IN  IF newPrice < oldMin
        THEN [changeType |-> "new_minimum", shouldAlert |-> TRUE,
              priceChange |-> priceChange]
        ELSE IF Abs(priceChange) >= analytics.alert_threshold
        THEN [changeType |-> "significant_drop", shouldAlert |-> TRUE,
              priceChange |-> priceChange]
        ELSE IF 200 * newPrice > 3 * oldAvg
        THEN [changeType |-> "price_spike", shouldAlert |-> FALSE,
              priceChange |-> priceChange]
        ELSE [changeType |-> "normal_fluctuation", shouldAlert |-> FALSE,
              priceChange |-> priceChange]

\* The decision of detectPriceChanges (lines 314-336) on the analytics record
\* it read: first match of new_minimum, significant_drop, price_spike.
\* newPrice > oldAvg * 1.5 is compared in hundredths, doubled.
Classify(analytics, newPrice) ==
    LET oldMin == analytics.all_time_min_price
        oldAvg == analytics.current_avg_price
        priceChange == newPrice - oldMin
    IN  IF newPrice < oldMin
        THEN [changeType |-> "new_minimum",
              shouldAlert |-> (Abs(priceChange) >= analytics.alert_threshold),
              priceChange |-> priceChange]
        ELSE IF Abs(priceChange) >= analytics.alert_threshold
        THEN [changeType |-> "significant_drop", shouldAlert |-> TRUE,
              priceChange |-> priceChange]
        ELSE IF 200 * newPrice > 3 * oldAvg
        THEN [changeType |-> "price_spike", shouldAlert |-> FALSE,
              priceChange |-> priceChange]
        ELSE [changeType |-> "normal_fluctuation", shouldAlert |-> FALSE,
              priceChange |-> priceChange]

\* The row detectPriceChanges inserts into price_changes (lines 339-355;
\* change_percentage, a rounded quotient used for display, is left out).
ChangeRecord(route, analytics, newPrice, c) ==
    [route_id |-> GenerateRouteId(route),
     old_price |-> analytics.all_time_min_price,
     new_price |-> newPrice,
     price_change |-> c.priceChange,
     change_type |-> c.changeType,
     samples_analyzed |-> analytics.total_samples,
     previous_min |-> analytics.all_time_min_price,
     previous_avg |-> analytics.current_avg_price,
     alert_sent |-> c.shouldAlert]

\* -------------------------------------------------------------------- state

VARIABLES
    flights,          \* table flights: rows [route, price, currency, link, updated_at], in insertion order
    price_analytics,  \* table price_analytics: route -> record, or NoAnalytics
    price_changes,    \* table price_changes: rows in insertion order
    notifications,    \* table notifications: rows in insertion order
    pushcut,          \* the number of POSTs the push transport has received
    now,              \* the clock, in hours
    ret,              \* the last operation: its name, inputs and return value
    ev,               \* the runs of runPriceEvaluator: position and local variables
    config_flights,   \* table config_flights: job id -> row
    ws                \* the instances of the web scraper: position, local variables, timers

vars == <<flights, price_analytics, price_changes, notifications, pushcut, now, ret, ev,
          config_flights, ws>>

\* The evaluator runs that may overlap.
Evaluators == {1, 2}

Idle == [pc |-> "idle"]

NoRet == [op |-> "none"]

\* The jobs of table config_flights, by id.
JobIds == {1}

\* The instances of the web scraper that may run at once.
Instances == {1, 2}

\* processing_instance_id of a job no instance has claimed.
NoInstance == 0

\* A job as it is configured: pending, never tried.
PendingJob == [status |-> "pending", attempts |-> 0, iterations |-> 0,
               processing_instance_id |-> NoInstance]

\* An instance before runWebScraper is called; no timer is set.
Resting == [pc |-> "idle", timers |-> {}]

\* The jobs are configured and no instance runs.
WebScraperInit ==
    /\ config_flights = [id \in JobIds |-> PendingJob]
    /\ ws = [k \in Instances |-> Resting]

\* The web scraper does not act.
WebScraperIdle == UNCHANGED <<config_flights, ws>>

\* DetectPriceChanges returning its classification although the insert of
\* the change record failed.
DetectPriceChangesDespiteInsertError(route, newPrice, analyticsError, insertError) ==
    LET analytics == price_analytics[GenerateRouteId(route)]
        c == Classify(analytics, newPrice)
        failed == [op |-> "detectPriceChanges", route |-> route,
                   newPrice |-> newPrice, ok |-> FALSE]
    IN  /\ Len(price_changes) < MaxAudit
        /\ IF analyticsError \/ ~analytics.exists
           THEN /\ ret' = failed
                /\ UNCHANGED price_changes
           ELSE /\ price_changes' =
                       IF insertError THEN price_changes
                       ELSE Append(price_changes, ChangeRecord(route, analytics, newPrice, c))
                /\ ret' = [op |-> "detectPriceChanges", route |-> route,
                           newPrice |-> newPrice, ok |-> TRUE,
                           analytics |-> analytics,
                           shouldAlert |-> c.shouldAlert,
                           changeType |-> c.changeType,
                           priceChange |-> c.priceChange]
        /\ UNCHANGED <<flights, price_analytics, notifications, pushcut, now>>

\* DetectPriceChanges classifying a route that has no record as a normal
\* fluctuation, and recording it.
DetectPriceChangesWithoutRecord(route, newPrice, analyticsError, insertError) ==
    LET analytics == price_analytics[GenerateRouteId(route)]
        known == IF analytics.exists
                 THEN analytics
                 ELSE [exists |-> TRUE, total_samples |-> 0,
                       all_time_min_price |-> newPrice,
                       current_avg_price |-> 100 * newPrice,
                       alert_threshold |-> DefaultThreshold]
        c == Classify(known, newPrice)
        failed == [op |-> "detectPriceChanges", route |-> route,
                   newPrice |-> newPrice, ok |-> FALSE]
    IN  /\ Len(price_changes) < MaxAudit
        /\ IF analyticsError \/ insertError
           THEN /\ ret' = failed
                /\ UNCHANGED price_changes
           ELSE /\ price_changes' =
                       Append(price_changes, ChangeRecord(route, known, newPrice, c))
                /\ ret' = [op |-> "detectPriceChanges", route |-> route,
                           newPrice |-> newPrice, ok |-> TRUE,
                           analytics |-> known,
                           shouldAlert |-> c.shouldAlert,
                           changeType |-> c.changeType,
                           priceChange |-> c.priceChange]
        /\ UNCHANGED <<flights, price_analytics, notifications, pushcut, now>>

\* DetectPriceChanges recording only the classifications that alert.
DetectPriceChangesAlertsOnly(route, newPrice, analyticsError, insertError) ==
    LET analytics == price_analytics[GenerateRouteId(route)]
        c == Classify(analytics, newPrice)
        failed == [op |-> "detectPriceChanges", route |-> route,
                   newPrice |-> newPrice, ok |-> FALSE]
    IN  /\ Len(price_changes) < MaxAudit
        /\ IF analyticsError \/ ~analytics.exists
           THEN /\ ret' = failed
                /\ UNCHANGED price_changes
           ELSE IF insertError /\ c.shouldAlert
           THEN /\ ret' = failed
                /\ UNCHANGED price_changes
           ELSE /\ price_changes' =
                       IF c.shouldAlert
                       THEN Append(price_changes, ChangeRecord(route, analytics, newPrice, c))
                       ELSE price_changes
                /\ ret' = [op |-> "detectPriceChanges", route |-> route,
                           newPrice |-> newPrice, ok |-> TRUE,
                           analytics |-> analytics,
                           shouldAlert |-> c.shouldAlert,
                           changeType |-> c.changeType,
                           priceChange |-> c.priceChange]
        /\ UNCHANGED <<flights, price_analytics, notifications, pushcut, now>>

\* detectPriceChanges(from, to, flightDate, newPrice), lines 293-385.  The
\* select of the record and the insert of the change row may each error.
DetectPriceChanges(route, newPrice, analyticsError, insertError) ==
    LET analytics == price_analytics[GenerateRouteId(route)]
        c == Classify(analytics, newPrice)
        failed == [op |-> "detectPriceChanges", route |-> route,
                   newPrice |-> newPrice, ok |-> FALSE]
    IN  /\ Len(price_changes) < MaxAudit
        /\ IF analyticsError \/ ~analytics.exists
           THEN /\ ret' = failed
                /\ UNCHANGED price_changes
           ELSE IF insertError
           THEN /\ ret' = failed
                /\ UNCHANGED price_changes
           ELSE /\ price_changes' =
                       Append(price_changes, ChangeRecord(route, analytics, newPrice, c))
                /\ ret' = [op |-> "detectPriceChanges", route |-> route,
                           newPrice |-> newPrice, ok |-> TRUE,
                           analytics |-> analytics,
                           shouldAlert |-> c.shouldAlert,
                           changeType |-> c.changeType,
                           priceChange |-> c.priceChange]
        /\ UNCHANGED <<flights, price_analytics, notifications, pushcut, now>>

\* ------------------------------------------------ send_notifications.js

NoNotification == [exists |-> FALSE]

\* What the push transport may do with a POST: answer ok, answer an error
\* status, or make the fetch throw.
Transports == {"ok", "fail", "throw"}

\* The query of canSendNotification (lines 49-57): the route's rows, newest
\* notification_sent_at first, limit 1.  Rows are inserted with the clock's
\* time, so the newest row of a route is the last one inserted for it.
LastNotification(route) ==
    LET rows == {i \in 1..Len(notifications) : notifications[i].route = route}
    IN  IF rows = {}
        THEN NoNotification
        ELSE notifications[CHOOSE i \in rows : \A j \in rows : j <= i]

\* CanSendNotification blocking inside the cool-down whatever the price.
CanSendIgnoresPrice(route, newPrice, lookupError) ==
    LET lastNotification == LastNotification(route)
    IN  IF lookupError
        THEN TRUE
        ELSE IF ~lastNotification.exists
        THEN TRUE
        ELSE ~(now - lastNotification.notification_sent_at < CooldownHours)

\* CanSendNotification with the comparison of the prices inverted: inside
\* the cool-down a new price is blocked and the same price let through.
CanSendBlocksNewPrice(route, newPrice, lookupError) ==
    LET lastNotification == LastNotification(route)
    IN  IF lookupError
        THEN TRUE
        ELSE IF ~lastNotification.exists
        THEN TRUE
        ELSE IF now - lastNotification.notification_sent_at < CooldownHours
        THEN lastNotification.new_price = newPrice
        ELSE TRUE

\* CanSendNotification looking up the newest row of a delivery that
\* succeeded.
CanSendSkipsFailed(route, newPrice, lookupError) ==
    LET rows == {i \in 1..Len(notifications) :
                    notifications[i].route = route /\ notifications[i].success}
        lastNotification == IF rows = {} THEN NoNotification
                            ELSE notifications[CHOOSE i \in rows : \A j \in rows : j <= i]
    IN  IF lookupError
        THEN TRUE
        ELSE IF ~lastNotification.exists
        THEN TRUE
        ELSE IF now - lastNotification.notification_sent_at < CooldownHours
        THEN lastNotification.new_price # newPrice
        ELSE TRUE

\* CanSendNotification refusing the send when the lookup fails.
CanSendFailsClosed(route, newPrice, lookupError) ==
    LET lastNotification == LastNotification(route)
    IN  IF lookupError
        THEN FALSE
        ELSE IF ~lastNotification.exists
        THEN TRUE
        ELSE IF now - lastNotification.notification_sent_at < CooldownHours
        THEN lastNotification.new_price # newPrice
        ELSE TRUE

\* canSendNotification(from, to, flightDate, newPrice), lines 46-97.  An
\* error of the lookup other than "no rows", or a throw, allows the send.
CanSendNotification(route, newPrice, lookupError) ==
    LET lastNotification == LastNotification(route)
    IN  IF lookupError
        THEN TRUE
        ELSE IF ~lastNotification.exists
        THEN TRUE
        ELSE IF now - lastNotification.notification_sent_at < CooldownHours
        THEN lastNotification.new_price # newPrice
        ELSE TRUE

\* The row logNotification inserts (lines 12-26); drop_percentage, a rounded
\* quotient, is left out.
NotificationData(route, oldPrice, newPrice, priceDrop, isSuccess) ==
    [exists |-> TRUE,
     route |-> route,
     route_id |-> GenerateRouteId(route),
     old_price |-> oldPrice,
     new_price |-> newPrice,
     price_drop |-> priceDrop,
     success |-> isSuccess,
     notification_sent_at |-> now]

\* Deliver with a catch branch that does not log the thrown fetch.
DeliverDropsThrown(op, route, currentPrice, hasRouteId, oldPrice, priceDrop, transport, insertError) ==
    LET isSuccess == (transport = "ok")
        logged == hasRouteId /\ ~insertError /\ transport # "throw"
    IN  /\ pushcut < MaxAudit
        /\ pushcut' = pushcut + 1
        /\ notifications' =
              IF logged
              THEN Append(notifications,
                          NotificationData(route, oldPrice, currentPrice, priceDrop, isSuccess))
              ELSE notifications
        /\ ret' = [op |-> op, route |-> route, price |-> currentPrice,
                   canSend |-> TRUE, transport |-> transport,
                   hasRouteId |-> hasRouteId, insertError |-> insertError,
                   value |-> isSuccess]

\* The POST to Pushcut and the audit row, lines 110-182 (the same lines as
\* evaluate_price.js 49-121): the transport answers "ok" or "fail" or the
\* fetch throws; the row is inserted when a routeId was passed, and the
\* insert's error is swallowed by logNotification.
Deliver(op, route, currentPrice, hasRouteId, oldPrice, priceDrop, transport, insertError) ==
    LET isSuccess == (transport = "ok")
        logged == hasRouteId /\ ~insertError
    IN  /\ pushcut < MaxAudit
        /\ pushcut' = pushcut + 1
        /\ notifications' =
              IF logged
              THEN Append(notifications,
                          NotificationData(route, oldPrice, currentPrice, priceDrop, isSuccess))
              ELSE notifications
        /\ ret' = [op |-> op, route |-> route, price |-> currentPrice,
                   canSend |-> TRUE, transport |-> transport,
                   hasRouteId |-> hasRouteId, insertError |-> insertError,
                   value |-> isSuccess]

\* SendPriceAlert posting before it consults the throttle.
SendPriceAlertPostsFirst(route, currentPrice, hasRouteId, oldPrice, priceDrop, lookupError, transport, insertError) ==
    /\ IF ~CanSendNotification(route, currentPrice, lookupError)
       THEN /\ pushcut < MaxAudit
            /\ pushcut' = pushcut + 1
            /\ ret' = [op |-> "sendPriceAlert", route |-> route,
                       price |-> currentPrice, canSend |-> FALSE, value |-> FALSE]
            /\ UNCHANGED notifications
       ELSE Deliver("sendPriceAlert", route, currentPrice, hasRouteId,
                    oldPrice, priceDrop, transport, insertError)
    /\ UNCHANGED <<flights, price_analytics, price_changes, now>>

\* sendPriceAlert of send_notifications.js, lines 100-183.
SendPriceAlert(route, currentPrice, hasRouteId, oldPrice, priceDrop, lookupError, transport, insertError) ==
    /\ IF ~CanSendNotification(route, currentPrice, lookupError)
       THEN /\ ret' = [op |-> "sendPriceAlert", route |-> route,
                       price |-> currentPrice, canSend |-> FALSE, value |-> FALSE]
            /\ UNCHANGED <<notifications, pushcut>>
       ELSE Deliver("sendPriceAlert", route, currentPrice, hasRouteId,
                    oldPrice, priceDrop, transport, insertError)
    /\ UNCHANGED <<flights, price_analytics, price_changes, now>>

\* The clock advances, up to a horizon.
Tick(horizon) ==
    /\ now + TickHours <= horizon
    /\ now' = now + TickHours
    /\ UNCHANGED <<flights, price_analytics, price_changes, notifications, pushcut, ret, ev>>

\* Prices notified when the throttle is exercised on its own.
ThrottlePrices == {900, 1000}

InitThrottle ==
    /\ flights = << >>
    /\ price_analytics = [id \in RouteIds |-> NoAnalytics]
    /\ price_changes = << >>
    /\ notifications = << >>
    /\ pushcut = 0
    /\ now = 0
    /\ ret = NoRet
    /\ ev = [k \in Evaluators |-> Idle]
    /\ WebScraperInit

NextThrottle ==
    \/ Tick(CooldownHours) /\ WebScraperIdle
    \/ \E route \in Routes, currentPrice \in ThrottlePrices, hasRouteId \in BOOLEAN,
          lookupError \in BOOLEAN, transport \in Transports, insertError \in BOOLEAN :
           /\ SendPriceAlert(route, currentPrice, hasRouteId,
                             currentPrice + DefaultThreshold, DefaultThreshold,
                             lookupError, transport, insertError)
           /\ UNCHANGED ev /\ WebScraperIdle

SpecThrottle == InitThrottle /\ [][NextThrottle]_vars

\* The clock advances by a number of hours, up to a horizon.
Advance(hours, horizon) ==
    /\ now + hours <= horizon
    /\ now' = now + hours
    /\ UNCHANGED <<flights, price_analytics, price_changes, notifications, pushcut, ret, ev>>

\* sendPriceAlert called at hours 0, 6, 7, 12 and 13 of a day.
NextScenario ==
    \/ \E hours \in {TickHours, TickHours + 1} : Advance(hours, CooldownHours + 1) /\ WebScraperIdle
    \/ \E route \in Routes, currentPrice \in ThrottlePrices, hasRouteId \in BOOLEAN,
          lookupError \in BOOLEAN, transport \in Transports, insertError \in BOOLEAN :
           /\ SendPriceAlert(route, currentPrice, hasRouteId,
                             currentPrice + DefaultThreshold, DefaultThreshold,
                             lookupError, transport, insertError)
           /\ UNCHANGED ev /\ WebScraperIdle

SpecScenario == InitThrottle /\ [][NextScenario]_vars

\* ------------------------------------- price_analytics.js: the refresh

\* The rows of a route in flights, newest first (lines 154-160).
RouteRows(table, route) ==
    LET idx == {i \in 1..Len(table) : table[i].route = route}
        RECURSIVE Newest(_)
        Newest(S) == IF S = {} THEN << >>
                     ELSE LET m == CHOOSE i \in S : \A j \in S : j <= i
                          IN  <<table[m]>> \o Newest(S \ {m})
    IN  Newest(idx)

PricesOf(rows) == [i \in 1..Len(rows) |-> rows[i].price]

\* The answers the store may give to `.order('updated_at', descending)`
\* (part_001 line 160, evaluate_price.js line 438): the rows newest first, rows of one instant in any order.
QueryOrders(table) ==
    {q \in [1..Len(table) -> 1..Len(table)] :
        /\ \A i, j \in 1..Len(table) : i # j => q[i] # q[j]
        /\ \A i, j \in 1..Len(table) :
              i < j => table[q[i]].updated_at >= table[q[j]].updated_at}

\* The answers the store may give to the select of a route's prices (lines
\* 154-160).
RouteAnswers(table, route) ==
    LET rows == SelectSeq(table, LAMBDA f : f.route = route)
    IN  {[i \in 1..Len(rows) |-> rows[q[i]]] : q \in QueryOrders(rows)}

\* Older7d with the sample of exactly seven days ago left out.
Older7dExclusive(allPrices, at) ==
    SelectSeq(allPrices, LAMBDA p : /\ p.updated_at < at - Last7dHours
                                    /\ p.updated_at > at - Older7dHours)

\* The windows of lines 177-190 over the answer allPrices, `at` being the
\* instant read at line 175.
Last24h(allPrices, at) ==
    SelectSeq(allPrices, LAMBDA p : p.updated_at > at - Last24Hours)

Last7d(allPrices, at) ==
    SelectSeq(allPrices, LAMBDA p : p.updated_at > at - Last7dHours)

Older7d(allPrices, at) ==
    SelectSeq(allPrices, LAMBDA p : /\ p.updated_at <= at - Last7dHours
                                    /\ p.updated_at > at - Older7dHours)

\* Trend24h with the halves taken the other way round.
Trend24hOlderFirst(last24h) ==
    LET half == (Len(last24h) + 1) \div 2
    IN  IF Len(last24h) >= 2
        THEN CalculateTrend(SubSeq(last24h, half + 1, Len(last24h)),
                            SubSeq(last24h, 1, half))
        ELSE {"stable"}

\* trend24h (lines 196-199): the first Math.ceil(length / 2) prices of
\* last24h against the rest.
Trend24h(last24h) ==
    LET half == (Len(last24h) + 1) \div 2
    IN  IF Len(last24h) >= 2
        THEN CalculateTrend(SubSeq(last24h, 1, half),
                            SubSeq(last24h, half + 1, Len(last24h)))
        ELSE {"stable"}

\* The window columns of analyticsData (lines 223-226, with line 201), for
\* each label the two trends may get.
WindowColumns(allPrices, at) ==
    {[samples_last_24h |-> Len(Last24h(allPrices, at)),
      samples_last_7d |-> Len(Last7d(allPrices, at)),
      trend_24h |-> trend24h,
      trend_7d |-> trend7d] :
        trend24h \in Trend24h(PricesOf(Last24h(allPrices, at))),
        trend7d \in CalculateTrend(PricesOf(Last7d(allPrices, at)),
                                   PricesOf(Older7d(allPrices, at)))}

\* A price_analytics row: the current statistics of analyticsData (lines
\* 210-228) with the all-time extrema, threshold and alert columns given.
AnalyticsRow(currentStats, allTimeMin, allTimeMax, threshold, alertsSent, lastAlert) ==
    [exists |-> TRUE,
     current_min_price |-> currentStats.min,
     current_max_price |-> currentStats.max,
     current_avg_price |-> currentStats.avg,
     current_median_price |-> currentStats.median,
     price_volatility |-> currentStats.volatility,
     all_time_min_price |-> allTimeMin,
     all_time_max_price |-> allTimeMax,
     total_samples |-> currentStats.samples,
     alert_threshold |-> threshold,
     total_alerts_sent |-> alertsSent,
     last_alert_sent_at |-> lastAlert]

\* existing.alert_threshold || 400 (line 240): a stored 0 is falsy.
ThresholdOrDefault(threshold) == IF threshold = 0 THEN DefaultThreshold ELSE threshold

\* AnalyticsData with the all-time columns of an update taken from the wrong
\* current statistic.
AnalyticsDataWrongField(existing, currentStats) ==
    IF existing.exists
    THEN AnalyticsRow(currentStats, currentStats.max, currentStats.min,
                      ThresholdOrDefault(existing.alert_threshold),
                      existing.total_alerts_sent, existing.last_alert_sent_at)
    ELSE AnalyticsRow(currentStats, currentStats.min, currentStats.max,
                      DefaultThreshold, 0, NoTime)

\* AnalyticsData with an update that leaves the stored extrema unfolded.
AnalyticsDataKeepsExtrema(existing, currentStats) ==
    IF existing.exists
    THEN AnalyticsRow(currentStats, existing.all_time_min_price,
                      existing.all_time_max_price,
                      ThresholdOrDefault(existing.alert_threshold),
                      existing.total_alerts_sent, existing.last_alert_sent_at)
    ELSE AnalyticsRow(currentStats, currentStats.min, currentStats.max,
                      DefaultThreshold, 0, NoTime)

\* AnalyticsData with an update that carries the stored threshold over as
\* it is, a 0 included.
AnalyticsDataKeepsThreshold(existing, currentStats) ==
    IF existing.exists
    THEN AnalyticsRow(currentStats,
                      Min2(existing.all_time_min_price, currentStats.min),
                      Max2(existing.all_time_max_price, currentStats.max),
                      existing.alert_threshold,
                      existing.total_alerts_sent, existing.last_alert_sent_at)
    ELSE AnalyticsRow(currentStats, currentStats.min, currentStats.max,
                      DefaultThreshold, 0, NoTime)

\* analyticsData as written to price_analytics (lines 210-257): for an
\* existing record the all-time extrema are folded with the stored ones and
\* alert_threshold / total_alerts_sent are taken from it (lines 237-240);
\* the update leaves the columns it does not name (last_alert_sent_at).  A
\* new record gets the current extrema, threshold 400 and no alerts.
AnalyticsData(existing, currentStats) ==
    IF existing.exists
    THEN AnalyticsRow(currentStats,
                      Min2(existing.all_time_min_price, currentStats.min),
                      Max2(existing.all_time_max_price, currentStats.max),
                      ThresholdOrDefault(existing.alert_threshold),
                      existing.total_alerts_sent, existing.last_alert_sent_at)
    ELSE AnalyticsRow(currentStats, currentStats.min, currentStats.max,
                      DefaultThreshold, 0, NoTime)

\* UpdatePriceAnalytics writing a record of zeros for a route without
\* samples.
UpdatePriceAnalyticsOfNothing(route, pricesError, selectError, writeError) ==
    \E allPrices \in RouteAnswers(flights, route) :
      \E windows \in WindowColumns(allPrices, now) :
        LET zeros == [min |-> 0, max |-> 0, avg |-> 0, median |-> 0,
                      volatility |-> 0, samples |-> 0]
            currentStats == IF Len(allPrices) = 0 THEN zeros
                            ELSE CalculateAdvancedStats(PricesOf(allPrices))
            existing == price_analytics[GenerateRouteId(route)]
            analyticsData == AnalyticsData(existing, currentStats) @@ windows
        IN  /\ IF pricesError \/ selectError \/ writeError
               THEN /\ ret' = [op |-> "updatePriceAnalytics", route |-> route,
                               ok |-> FALSE]
                    /\ UNCHANGED price_analytics
               ELSE /\ price_analytics' = [price_analytics EXCEPT ![GenerateRouteId(route)] = analyticsData]
                    /\ ret' = [op |-> "updatePriceAnalytics", route |-> route, ok |-> TRUE,
                               created |-> ~existing.exists,
                               routeId |-> GenerateRouteId(route),
                               currentStats |-> currentStats,
                               trends |-> [trend24h |-> windows.trend_24h,
                                           trend7d |-> windows.trend_7d]]
            /\ UNCHANGED <<flights, price_changes, notifications, pushcut, now>>

\* updatePriceAnalytics(from, to, flightDate), lines 148-290, as one
\* serialized operation: the select of the prices, the select of the
\* existing record and the update or insert may each error.
UpdatePriceAnalytics(route, pricesError, selectError, writeError) ==
    \E allPrices \in RouteAnswers(flights, route) :
      \E windows \in WindowColumns(allPrices, now) :
        LET currentStats == CalculateAdvancedStats(PricesOf(allPrices))
            existing == price_analytics[GenerateRouteId(route)]
            analyticsData == AnalyticsData(existing, currentStats) @@ windows
            failed == [op |-> "updatePriceAnalytics", route |-> route, ok |-> FALSE]
        IN  /\ IF pricesError \/ Len(allPrices) = 0 \/ selectError \/ writeError
               THEN /\ ret' = failed
                    /\ UNCHANGED price_analytics
               ELSE /\ price_analytics' = [price_analytics EXCEPT ![GenerateRouteId(route)] = analyticsData]
                    /\ ret' = [op |-> "updatePriceAnalytics", route |-> route, ok |-> TRUE,
                               created |-> ~existing.exists,
                               routeId |-> GenerateRouteId(route),
                               currentStats |-> currentStats,
                               trends |-> [trend24h |-> windows.trend_24h,
                                           trend7d |-> windows.trend_7d]]
            /\ UNCHANGED <<flights, price_changes, notifications, pushcut, now>>

\* ------------------------------------------------------------ environment

\* The currencies validateFlightData accepts (line 61).
Currencies == {"MXN", "USD", "EUR"}

\* A link is its scheme followed by the rest of the URL; << >> is no link.
\* startsWith('https://') (line 69) looks at the scheme.
HttpsLink == <<"https://", "www.google.com/travel/flights">>
HttpLink == <<"http://", "www.google.com/travel/flights">>
NoLink == << >>
StartsWithHttps(link) == Len(link) > 0 /\ Head(link) = "https://"

\* A price as JavaScript sees it: a number, or a value that is not one
\* (undefined, null, a string, NaN).
Number(value) == [isNumber |-> TRUE, value |-> value]
NotANumber == [isNumber |-> FALSE, value |-> 0]

\* validateFlightData (part_000 lines 42-78): the messages it collects; it
\* throws unless there is none.  An empty string stands for every falsy
\* text (undefined, null, '').
ValidationErrors(flightData) ==
    (IF flightData.from = "" THEN {"from"} ELSE {})
        \cup (IF flightData.to = "" THEN {"to"} ELSE {})
        \cup (IF \/ ~flightData.price.isNumber
                 \/ flightData.price.value = 0
                 \/ flightData.price.value <= 0
              THEN {"price"} ELSE {})
        \cup (IF flightData.price.isNumber /\ flightData.price.value > PriceLimit
              THEN {"price too high"} ELSE {})
        \cup (IF flightData.currency \notin Currencies THEN {"currency"} ELSE {})
        \cup (IF flightData.flight_date = "" THEN {"flight_date"} ELSE {})
        \cup (IF flightData.link # NoLink /\ ~StartsWithHttps(flightData.link)
              THEN {"link"} ELSE {})

ValidateFlightData(flightData) == ValidationErrors(flightData) = {}

\* A row of table flights (the payload of lines 241-249 and of index.js
\* lines 322-330), stamped with the clock.
FlightRow(from, to, flightDate, price, currency, link) ==
    [route |-> [from |-> from, to |-> to, flight_date |-> flightDate],
     price |-> price, currency |-> currency, link |-> link, updated_at |-> now]

\* savePriceToSupabase(flightData), part_000 lines 233-267: a validation
\* error is caught and answered with false, as is an error of the insert.
SavePriceData(flightData, insertError) ==
    /\ IF ~ValidateFlightData(flightData) \/ insertError
       THEN /\ ret' = [op |-> "savePriceToSupabase", flightData |-> flightData,
                       value |-> FALSE]
            /\ UNCHANGED flights
       ELSE /\ Len(flights) < MaxFlights
            /\ flights' = Append(flights,
                                 FlightRow(flightData.from, flightData.to,
                                           flightData.flight_date,
                                           flightData.price.value,
                                           flightData.currency, flightData.link))
            /\ ret' = [op |-> "savePriceToSupabase", flightData |-> flightData,
                       value |-> TRUE]
    /\ UNCHANGED <<price_analytics, price_changes, notifications, pushcut, now, ev>>

\* What the scraper passes for a price it has read off a route's page.
Scraped(route, price) ==
    [from |-> route.from, to |-> route.to, flight_date |-> route.flight_date,
     price |-> Number(price), currency |-> "MXN", link |-> HttpsLink]

\* savePriceToSupabase (part_000 lines 233-267) for a price the scraper has
\* read: the observation is appended, stamped with the clock.
SavePriceToSupabase(route, price) ==
    /\ Len(flights) < MaxFlights
    /\ SavePriceData(Scraped(route, price), FALSE)

\* An operator stores a per-route alert_threshold in an existing record.
OverrideThreshold(route, threshold) ==
    /\ price_analytics[GenerateRouteId(route)].exists
    /\ price_analytics[GenerateRouteId(route)].alert_threshold # threshold
    /\ price_analytics' = [price_analytics EXCEPT ![GenerateRouteId(route)].alert_threshold = threshold]
    /\ ret' = [op |-> "overrideThreshold", route |-> route]
    /\ UNCHANGED <<flights, price_changes, notifications, pushcut, now, ev>>

\* ------------------------------------------------------ evaluate_price.js

\* sendPriceAlert of evaluate_price.js, lines 47-122: the copy the evaluator
\* calls.  It posts and logs; it does not consult canSendNotification.
EvaluatorSendPriceAlert(route, currentPrice, hasRouteId, oldPrice, priceDrop, transport, insertError) ==
    /\ Deliver("evaluatorSendPriceAlert", route, currentPrice, hasRouteId,
               oldPrice, priceDrop, transport, insertError)
    /\ UNCHANGED <<flights, price_analytics, price_changes, now>>

\* The dates an evaluation may be asked for.
FlightDates(routes) == {route.flight_date : route \in routes}

\* The rows of one flight date (line 437).
DateRows(table, flightDate) ==
    SelectSeq(table, LAMBDA f : f.route.flight_date = flightDate)

\* routeKey (line 453): `${flight.from}-${flight.to}`.
RouteKey(flight) == flight.route.from \o "-" \o flight.route.to

\* RouteMap replacing the flight kept by one of the same updated_at too.
RECURSIVE RouteMapKeepsLast(_, _)
RouteMapKeepsLast(recentFlights, acc) ==
    IF recentFlights = << >>
    THEN acc
    ELSE LET flight == Head(recentFlights)
             at == {i \in 1..Len(acc) : RouteKey(acc[i]) = RouteKey(flight)}
         IN  IF at = {}
             THEN RouteMapKeepsLast(Tail(recentFlights), Append(acc, flight))
             ELSE LET i == CHOOSE x \in at : TRUE
                  IN  IF flight.updated_at >= acc[i].updated_at
                      THEN RouteMapKeepsLast(Tail(recentFlights), [acc EXCEPT ![i] = flight])
                      ELSE RouteMapKeepsLast(Tail(recentFlights), acc)

\* routeMap (lines 451-457): scanning the answer, a flight enters the map
\* when its route is new or its updated_at is strictly later than the one
\* kept; a Map keeps its keys in order of first insertion.
RECURSIVE RouteMap(_, _)
RouteMap(recentFlights, acc) ==
    IF recentFlights = << >>
    THEN acc
    ELSE LET flight == Head(recentFlights)
             at == {i \in 1..Len(acc) : RouteKey(acc[i]) = RouteKey(flight)}
         IN  IF at = {}
             THEN RouteMap(Tail(recentFlights), Append(acc, flight))
             ELSE LET i == CHOOSE x \in at : TRUE
                  IN  IF flight.updated_at > acc[i].updated_at
                      THEN RouteMap(Tail(recentFlights), [acc EXCEPT ![i] = flight])
                      ELSE RouteMap(Tail(recentFlights), acc)

\* `continue` / the end of the loop body (line 465): the next route, or the
\* summary after the last one.
NextRoute(e) ==
    [e EXCEPT !.todo = Tail(e.todo),
              !.pc = IF Len(e.todo) = 1 THEN "summary" ELSE "refresh"]

\* runPriceEvaluator, lines 433-462: load the date's flights and build
\* routeMap; an error or an empty answer returns false.
EvalStart(k, flightDate, recentError, q) ==
    LET dated == DateRows(flights, flightDate)
        recentFlights == [i \in 1..Len(dated) |-> dated[q[i]]]
        routeMap == RouteMap(recentFlights, << >>)
    IN  /\ ev[k].pc \in {"idle", "done"}
        /\ Len(price_changes) + Len(routeMap) <= MaxAudit
        /\ pushcut + Len(routeMap) <= MaxAudit
        /\ IF recentError \/ Len(recentFlights) = 0
           THEN /\ ev' = [ev EXCEPT ![k] = [pc |-> "done"]]
                /\ ret' = [op |-> "runPriceEvaluator", ok |-> FALSE]
           ELSE /\ ev' = [ev EXCEPT ![k] =
                            [pc |-> "refresh", todo |-> routeMap,
                             size |-> Len(routeMap), routesAnalyzed |-> 0,
                             alerts |-> << >>]]
                /\ ret' = [op |-> "runPriceEvaluator.start",
                           recentFlights |-> recentFlights]
        /\ UNCHANGED <<flights, price_analytics, price_changes, notifications,
                       pushcut, now>>

\* EvalRefresh with a failed refresh leaving the loop (break for continue).
EvalRefreshAborts(k, pricesError, selectError, writeError) ==
    LET flight == Head(ev[k].todo)
        e == [ev[k] EXCEPT !.routesAnalyzed = @ + 1]
    IN  /\ ev[k].pc = "refresh"
        /\ UpdatePriceAnalytics(flight.route, pricesError, selectError, writeError)
        /\ ev' = [ev EXCEPT ![k] = IF ret'.ok
                                   THEN [e EXCEPT !.pc = "detect"]
                                   ELSE [e EXCEPT !.pc = "summary", !.todo = << >>]]

\* Lines 465-475: PASO 2A, updatePriceAnalytics for the route; a failure
\* skips the route.
EvalRefresh(k, pricesError, selectError, writeError) ==
    LET flight == Head(ev[k].todo)
        e == [ev[k] EXCEPT !.routesAnalyzed = @ + 1]
    IN  /\ ev[k].pc = "refresh"
        /\ UpdatePriceAnalytics(flight.route, pricesError, selectError, writeError)
        /\ ev' = [ev EXCEPT ![k] = IF ret'.ok
                                   THEN [e EXCEPT !.pc = "detect"]
                                   ELSE NextRoute(e)]

\* Lines 477-480 and 526-528: PASO 2B, detectPriceChanges with the price of
\* the route's flight in routeMap.
EvalDetect(k, analyticsError, insertError) ==
    LET flight == Head(ev[k].todo)
    IN  /\ ev[k].pc = "detect"
        /\ DetectPriceChanges(flight.route, flight.price, analyticsError, insertError)
        /\ ev' = [ev EXCEPT ![k] =
                    IF ret'.ok /\ ret'.shouldAlert
                    THEN [pc |-> "alert", todo |-> ev[k].todo, size |-> ev[k].size,
                          routesAnalyzed |-> ev[k].routesAnalyzed,
                          alerts |-> ev[k].alerts,
                          priceChange |-> ret'.priceChange,
                          changeType |-> ret'.changeType]
                    ELSE NextRoute(ev[k])]

\* The evaluator's locals without those of one alert.
AfterAlert(e, alerts) ==
    NextRoute([pc |-> "alert", todo |-> e.todo, size |-> e.size,
               routesAnalyzed |-> e.routesAnalyzed, alerts |-> alerts])

\* EvalAlert counting every attempted delivery as an alert sent.
EvalAlertCountsAttempts(k, transport, insertError) ==
    LET flight == Head(ev[k].todo)
        oldPrice == flight.price + Abs(ev[k].priceChange)
        priceDrop == Abs(ev[k].priceChange)
    IN  /\ ev[k].pc = "alert"
        /\ EvaluatorSendPriceAlert(flight.route, flight.price, TRUE, oldPrice,
                                   priceDrop, transport, insertError)
        /\ ev' = [ev EXCEPT ![k] = [ev[k] EXCEPT !.pc = "count"]]

\* Lines 483-499 and 523-525: the alert of an alert-worthy route.
EvalAlert(k, transport, insertError) ==
    LET flight == Head(ev[k].todo)
        oldPrice == flight.price + Abs(ev[k].priceChange)
        priceDrop == Abs(ev[k].priceChange)
    IN  /\ ev[k].pc = "alert"
        /\ EvaluatorSendPriceAlert(flight.route, flight.price, TRUE, oldPrice,
                                   priceDrop, transport, insertError)
        /\ ev' = [ev EXCEPT ![k] = IF ret'.value
                                   THEN [ev[k] EXCEPT !.pc = "count"]
                                   ELSE AfterAlert(ev[k], ev[k].alerts)]

\* Lines 501-522: after a delivered alert, last_alert_sent_at is updated and
\* the increment_alert_counter procedure of the store is called; neither
\* result is looked at.  The alert joins the run's list.
EvalCount(k, alertUpdateError, rpcError) ==
    LET flight == Head(ev[k].todo)
        r == flight.route
        stamped == IF alertUpdateError \/ ~price_analytics[GenerateRouteId(r)].exists
                   THEN price_analytics[GenerateRouteId(r)]
                   ELSE [price_analytics[GenerateRouteId(r)] EXCEPT !.last_alert_sent_at = now]
        counted == IF rpcError \/ ~stamped.exists
                   THEN stamped
                   ELSE [stamped EXCEPT !.total_alerts_sent = @ + 1]
        alert == [route |-> r, price |-> flight.price,
                  priceDrop |-> Abs(ev[k].priceChange),
                  changeType |-> ev[k].changeType]
    IN  /\ ev[k].pc = "count"
        /\ price_analytics' = [price_analytics EXCEPT ![GenerateRouteId(r)] = counted]
        /\ ret' = [op |-> "increment_alert_counter", route |-> r]
        /\ ev' = [ev EXCEPT ![k] = AfterAlert(ev[k], Append(ev[k].alerts, alert))]
        /\ UNCHANGED <<flights, price_changes, notifications, pushcut, now>>

\* Lines 531-557: the run's summary.
EvalSummary(k) ==
    /\ ev[k].pc = "summary"
    /\ ret' = [op |-> "runPriceEvaluator", ok |-> TRUE,
               routesAnalyzed |-> ev[k].size,
               alertsSent |-> Len(ev[k].alerts),
               alerts |-> ev[k].alerts]
    /\ ev' = [ev EXCEPT ![k] = [pc |-> "done"]]
    /\ UNCHANGED <<flights, price_analytics, price_changes, notifications, pushcut, now>>

\* --------------------------------- the engine with one evaluator at a time

Init ==
    /\ flights = << >>
    /\ price_analytics = [id \in RouteIds |-> NoAnalytics]
    /\ price_changes = << >>
    /\ notifications = << >>
    /\ pushcut = 0
    /\ now = 0
    /\ ret = NoRet
    /\ ev = [k \in Evaluators |-> Idle]
    /\ WebScraperInit

\* No evaluator run is under way.
Quiet == \A k \in Evaluators : ev[k].pc \in {"idle", "done"}

\* A sample stamped with the present instant is stored.
SavedNow == \E i \in 1..Len(flights) : flights[i].updated_at = now

\* Operations are serialized: the scraper, the operator and the clock act
\* between evaluator runs.  The single scraper saves its observations one
\* after the other, each at a later instant (part_000 line 242).
Next ==
    \/ Quiet /\ Tick(MaxHours) /\ WebScraperIdle
    \/ \E route \in Routes, price \in Prices :
          Quiet /\ ~SavedNow /\ SavePriceToSupabase(route, price) /\ WebScraperIdle
    \/ \E route \in Routes, threshold \in Thresholds :
          Quiet /\ OverrideThreshold(route, threshold) /\ WebScraperIdle
    \/ \E flightDate \in FlightDates(Routes), recentError \in BOOLEAN :
          \E q \in QueryOrders(DateRows(flights, flightDate)) :
              EvalStart(1, flightDate, recentError, q) /\ WebScraperIdle
    \/ \E pricesError \in BOOLEAN, selectError \in BOOLEAN, writeError \in BOOLEAN :
          EvalRefresh(1, pricesError, selectError, writeError) /\ WebScraperIdle
    \/ \E analyticsError \in BOOLEAN, insertError \in BOOLEAN :
          EvalDetect(1, analyticsError, insertError) /\ WebScraperIdle
    \/ \E transport \in Transports, insertError \in BOOLEAN :
          EvalAlert(1, transport, insertError) /\ WebScraperIdle
    \/ \E alertUpdateError \in BOOLEAN, rpcError \in BOOLEAN :
          EvalCount(1, alertUpdateError, rpcError) /\ WebScraperIdle
    \/ EvalSummary(1) /\ WebScraperIdle

Spec == Init /\ [][Next]_vars

\* ------------------------------------------- overlapping evaluator runs

\* updatePriceAnalytics as its three requests to the store, between which
\* other runs and the scraper act.  Lines 154-170: the select of the prices.
RefreshReadPrices(k, pricesError) ==
    LET flight == Head(ev[k].todo)
        e == [ev[k] EXCEPT !.routesAnalyzed = @ + 1]
    IN  /\ ev[k].pc = "refresh"
        /\ \E allPrices \in RouteAnswers(flights, flight.route) :
            \E windows \in WindowColumns(allPrices, now) :
              IF pricesError \/ Len(allPrices) = 0
              THEN /\ ev' = [ev EXCEPT ![k] = NextRoute(e)]
                   /\ ret' = [op |-> "updatePriceAnalytics", route |-> flight.route,
                              ok |-> FALSE]
              ELSE /\ ev' = [ev EXCEPT ![k] =
                               [pc |-> "refresh.select", todo |-> e.todo,
                                size |-> e.size,
                                routesAnalyzed |-> e.routesAnalyzed,
                                alerts |-> e.alerts,
                                prices |-> PricesOf(allPrices),
                                windows |-> windows]]
                   /\ ret' = [op |-> "updatePriceAnalytics.prices",
                              route |-> flight.route]
        /\ UNCHANGED <<flights, price_analytics, price_changes, notifications,
                       pushcut, now>>

\* Lines 203-233: the select of the existing record.
RefreshReadExisting(k, selectError) ==
    LET flight == Head(ev[k].todo)
        e == [pc |-> "refresh", todo |-> ev[k].todo, size |-> ev[k].size,
              routesAnalyzed |-> ev[k].routesAnalyzed, alerts |-> ev[k].alerts]
    IN  /\ ev[k].pc = "refresh.select"
        /\ IF selectError
           THEN /\ ev' = [ev EXCEPT ![k] = NextRoute(e)]
                /\ ret' = [op |-> "updatePriceAnalytics", route |-> flight.route,
                           ok |-> FALSE]
           ELSE /\ ev' = [ev EXCEPT ![k] =
                            [pc |-> "refresh.write", todo |-> e.todo, size |-> e.size,
                             routesAnalyzed |-> e.routesAnalyzed, alerts |-> e.alerts,
                             prices |-> ev[k].prices, windows |-> ev[k].windows,
                             existing |-> price_analytics[GenerateRouteId(flight.route)]]]
                /\ ret' = [op |-> "updatePriceAnalytics.select", route |-> flight.route]
        /\ UNCHANGED <<flights, price_analytics, price_changes, notifications,
                       pushcut, now>>

\* Lines 235-269: the update of the record read, or the insert of a new one.
\* The update sets the columns of analyticsData and leaves the others as
\* they now are; an insert for a route_id that has meanwhile got a record is
\* refused by the store.
RefreshWrite(k, writeError) ==
    LET flight == Head(ev[k].todo)
        r == flight.route
        currentStats == CalculateAdvancedStats(ev[k].prices)
        analyticsData == AnalyticsData(ev[k].existing, currentStats) @@ ev[k].windows
        stored == IF price_analytics[GenerateRouteId(r)].exists
                  THEN [analyticsData EXCEPT !.last_alert_sent_at =
                                                 price_analytics[GenerateRouteId(r)].last_alert_sent_at]
                  ELSE analyticsData
        refused == writeError \/ (~ev[k].existing.exists /\ price_analytics[GenerateRouteId(r)].exists)
        e == [pc |-> "refresh", todo |-> ev[k].todo, size |-> ev[k].size,
              routesAnalyzed |-> ev[k].routesAnalyzed, alerts |-> ev[k].alerts]
    IN  /\ ev[k].pc = "refresh.write"
        /\ IF refused
           THEN /\ ev' = [ev EXCEPT ![k] = NextRoute(e)]
                /\ ret' = [op |-> "updatePriceAnalytics", route |-> r, ok |-> FALSE]
                /\ UNCHANGED price_analytics
           ELSE /\ price_analytics' = [price_analytics EXCEPT ![GenerateRouteId(r)] = stored]
                /\ ev' = [ev EXCEPT ![k] = [e EXCEPT !.pc = "detect"]]
                /\ ret' = [op |-> "updatePriceAnalytics", route |-> r, ok |-> TRUE,
                           created |-> ~ev[k].existing.exists,
                           routeId |-> GenerateRouteId(r),
                           currentStats |-> currentStats,
                           trends |-> [trend24h |-> ev[k].windows.trend_24h,
                                       trend7d |-> ev[k].windows.trend_7d]]
        /\ UNCHANGED <<flights, price_changes, notifications, pushcut, now>>

\* The single scraper saves its observations one after the other, each at a
\* later instant (part_000 line 242); the evaluator runs overlap freely.
NextConc ==
    \/ Tick(MaxHours) /\ WebScraperIdle
    \/ \E route \in Routes, price \in Prices :
          ~SavedNow /\ SavePriceToSupabase(route, price) /\ WebScraperIdle
    \/ \E k \in Evaluators :
          \/ \E flightDate \in FlightDates(Routes), recentError \in BOOLEAN :
                \E q \in QueryOrders(DateRows(flights, flightDate)) :
                    EvalStart(k, flightDate, recentError, q) /\ WebScraperIdle
          \/ \E pricesError \in BOOLEAN : RefreshReadPrices(k, pricesError) /\ WebScraperIdle
          \/ \E selectError \in BOOLEAN : RefreshReadExisting(k, selectError) /\ WebScraperIdle
          \/ \E writeError \in BOOLEAN : RefreshWrite(k, writeError) /\ WebScraperIdle
          \/ \E analyticsError \in BOOLEAN, insertError \in BOOLEAN :
                EvalDetect(k, analyticsError, insertError) /\ WebScraperIdle
          \/ \E transport \in Transports, insertError \in BOOLEAN :
                EvalAlert(k, transport, insertError) /\ WebScraperIdle
          \/ \E alertUpdateError \in BOOLEAN, rpcError \in BOOLEAN :
                EvalCount(k, alertUpdateError, rpcError) /\ WebScraperIdle
          \/ EvalSummary(k) /\ WebScraperIdle

SpecConc == Init /\ [][NextConc]_vars

\* ------------------------------------------- the change detector on its own

\* A price_analytics record as the change detector reads it.
ClassifyRecord(m, a, t) ==
    [exists |-> TRUE,
     all_time_min_price |-> m, all_time_max_price |-> m,
     current_min_price |-> m, current_max_price |-> m,
     current_avg_price |-> a, current_median_price |-> a,
     total_samples |-> 1,
     alert_threshold |-> t, total_alerts_sent |-> 0,
     last_alert_sent_at |-> NoTime]

InitClassify ==
    /\ flights = << >>
    /\ \E m \in ClassifyMins, a \in ClassifyAvgs, t \in Thresholds, none \in BOOLEAN :
          price_analytics =
              [id \in RouteIds |->
                  IF id \in {GenerateRouteId(r) : r \in Routes} /\ ~none
                  THEN ClassifyRecord(m, a, t) ELSE NoAnalytics]
    /\ price_changes = << >>
    /\ notifications = << >>
    /\ pushcut = 0
    /\ now = 0
    /\ ret = NoRet
    /\ ev = [k \in Evaluators |-> Idle]
    /\ WebScraperInit

NextClassify ==
    \E route \in Routes, newPrice \in ClassifyPrices,
       analyticsError \in BOOLEAN, insertError \in BOOLEAN :
        /\ DetectPriceChanges(route, newPrice, analyticsError, insertError)
        /\ UNCHANGED ev /\ WebScraperIdle

SpecClassify == InitClassify /\ [][NextClassify]_vars

\* ------------------------------------- the evaluation of a loaded store

\* The prices of the samples of a loaded store.
BatchPrices == {4500, 5000, 5400}

\* What the scraper may have observed: any of the prices on the first
\* route, the scraper's prices on the others.
BatchSamples ==
    {[route |-> r, price |-> p] : r \in Routes, p \in BatchPrices}
        \cup {[route |-> r, price |-> p] : r \in BatchRoutes \ Routes, p \in Prices}

\* The store after the scraper has saved the samples one per tick of the
\* clock (savePriceToSupabase, part_000 lines 233-267).
LoadedStore(samples) ==
    [i \in 1..Len(samples) |->
        [route |-> samples[i].route, price |-> samples[i].price,
         currency |-> "MXN", link |-> HttpsLink,
         updated_at |-> (i - 1) * TickHours]]

\* No evaluation has run yet on a store of up to MaxBatch samples.
InitBatch ==
    /\ \E n \in 1..MaxBatch :
          \E samples \in [1..n -> BatchSamples] :
              /\ flights = LoadedStore(samples)
              /\ now = (n - 1) * TickHours
    /\ price_analytics = [id \in RouteIds |-> NoAnalytics]
    /\ price_changes = << >>
    /\ notifications = << >>
    /\ pushcut = 0
    /\ ret = NoRet
    /\ ev = [k \in Evaluators |-> Idle]
    /\ WebScraperInit

\* One run of runPriceEvaluator, for any of the dates.
NextBatch ==
    \/ \E flightDate \in FlightDates(BatchRoutes), recentError \in BOOLEAN :
          \E q \in QueryOrders(DateRows(flights, flightDate)) :
              ev[1].pc = "idle" /\ EvalStart(1, flightDate, recentError, q) /\ WebScraperIdle
    \/ \E pricesError \in BOOLEAN, selectError \in BOOLEAN, writeError \in BOOLEAN :
          EvalRefresh(1, pricesError, selectError, writeError) /\ WebScraperIdle
    \/ \E analyticsError \in BOOLEAN, insertError \in BOOLEAN :
          EvalDetect(1, analyticsError, insertError) /\ WebScraperIdle
    \/ \E transport \in Transports, insertError \in BOOLEAN :
          EvalAlert(1, transport, insertError) /\ WebScraperIdle
    \/ \E alertUpdateError \in BOOLEAN, rpcError \in BOOLEAN :
          EvalCount(1, alertUpdateError, rpcError) /\ WebScraperIdle
    \/ EvalSummary(1) /\ WebScraperIdle

SpecBatch == InitBatch /\ [][NextBatch]_vars

\* ------------------------------------------------- index.js: the scraper

\* A price text as the page shows it: capital letters, "$", then digits with
\* thousands separators ("MX$4,500" is letters M, X and amount 4500).
PriceString(letters, amount) == [letters |-> letters, amount |-> amount]

RECURSIVE Join(_)
Join(letters) == IF letters = << >> THEN "" ELSE Head(letters) \o Join(Tail(letters))

\* parsePrice (index.js lines 112-124): /([A-Z]{1,3})\$?([\d,]+)/ takes the
\* (at most three) capitals that stand right before the amount as the
\* currency; a text without such capitals gives USD and price 0.
ParsePrice(priceString) ==
    LET n == Len(priceString.letters)
    IN  IF n = 0
        THEN [currency |-> "USD", price |-> 0]
        ELSE [currency |-> Join(SubSeq(priceString.letters, Max2(1, n - 2), n)),
              price |-> priceString.amount]

\* The rows the history query of checkPriceTrendAndAlert selects (index.js
\* lines 154-161).
HistoryRows(table, from, to, link, flightDate) ==
    LET Matches(row) ==
            /\ row.route = [from |-> from, to |-> to, flight_date |-> flightDate]
            /\ row.link = link
    IN  SelectSeq(table, Matches)

\* The decision of checkPriceTrendAndAlert (index.js lines 186-220) over the
\* history's prices, most recent first.
ShouldAlert(priceHistory, currentPrice) ==
    LET lastPrice == priceHistory[1]
        lowestPrice == SeqMin(priceHistory)
        priceDifference == lastPrice - currentPrice
        isSignificantDrop == priceDifference >= 100
        isNewLowest == currentPrice < lowestPrice
        trendChange ==
            /\ Len(priceHistory) >= 3
            /\ priceHistory[3] < priceHistory[2]
            /\ priceHistory[2] < priceHistory[1]
            /\ currentPrice < lastPrice
    IN  \/ isNewLowest
        \/ isSignificantDrop
        \/ trendChange /\ priceDifference >= 50

\* checkDuplicateRecord (index.js lines 253-302): a row with the same route,
\* price and link is stored; an error of the query answers false.
CheckDuplicateRecord(table, from, to, price, link, flightDate, dupError) ==
    /\ ~dupError
    /\ \E i \in 1..Len(table) :
          /\ table[i].route = [from |-> from, to |-> to, flight_date |-> flightDate]
          /\ table[i].price = price
          /\ table[i].link = link

\* insertFlight (index.js lines 304-362): parse the price text, alert on the
\* trend (sendPriceAlert of lines 127-148 posts to the push transport), skip
\* a duplicate, insert the row.  No validation is called.
InsertFlight(from, to, priceString, link, flightDate, q, queryError, dupError, insertError) ==
    LET parsed == ParsePrice(priceString)
        rows == HistoryRows(flights, from, to, link, flightDate)
        history == [i \in 1..Len(rows) |-> rows[q[i]].price]
        alerted == ~queryError /\ Len(rows) > 0 /\ ShouldAlert(history, parsed.price)
        isDuplicate ==
            CheckDuplicateRecord(flights, from, to, parsed.price, link, flightDate,
                                 dupError)
        inserted == ~isDuplicate /\ ~insertError
        flightData == [from |-> from, to |-> to, flight_date |-> flightDate,
                       price |-> Number(parsed.price),
                       currency |-> parsed.currency, link |-> link]
    IN  /\ alerted => pushcut < MaxAudit
        /\ pushcut' = IF alerted THEN pushcut + 1 ELSE pushcut
        /\ inserted => Len(flights) < MaxFlights
        /\ flights' = IF inserted
                      THEN Append(flights,
                                  FlightRow(from, to, flightDate, parsed.price,
                                            parsed.currency, link))
                      ELSE flights
        /\ ret' = [op |-> "insertFlight", flightData |-> flightData,
                   alerted |-> alerted, value |-> inserted]
        /\ UNCHANGED <<price_analytics, price_changes, notifications, now, ev>>

\* The amounts a scraped page shows.
ScrapedAmounts == Prices \cup {4900}

\* The price texts of a scraped page: a three-letter code, the two-letter
\* prefix Google Flights prints, and a text without capitals.
PriceStrings ==
    {PriceString(letters, amount) :
        letters \in {<<"M", "X", "N">>, <<"M", "X">>, << >>},
        amount \in ScrapedAmounts}

\* Observations offered to savePriceToSupabase: a well-formed one, and the
\* same with one field broken.
Observations ==
    LET good == Scraped(CHOOSE route \in Routes : TRUE, CHOOSE price \in Prices : TRUE)
    IN  {good,
         [good EXCEPT !.from = ""],
         [good EXCEPT !.to = ""],
         [good EXCEPT !.price = NotANumber],
         [good EXCEPT !.price = Number(0)],
         [good EXCEPT !.price = Number(0 - 100)],
         [good EXCEPT !.price = Number(PriceLimit + 1)],
         [good EXCEPT !.currency = "MX"],
         [good EXCEPT !.flight_date = ""],
         [good EXCEPT !.link = HttpLink],
         [good EXCEPT !.link = NoLink]}

\* Both ways into table flights, from an empty store.
NextIngress ==
    \/ Tick(TickHours) /\ WebScraperIdle
    \/ \E flightData \in Observations, insertError \in BOOLEAN :
          SavePriceData(flightData, insertError) /\ WebScraperIdle
    \/ \E route \in Routes, priceString \in PriceStrings :
          \E queryError, dupError, insertError \in BOOLEAN :
             \E q \in QueryOrders(HistoryRows(flights, route.from, route.to, HttpsLink, route.flight_date)) :
                InsertFlight(route.from, route.to, priceString, HttpsLink,
                             route.flight_date, q, queryError, dupError, insertError) /\ WebScraperIdle

SpecIngress == Init /\ [][NextIngress]_vars

\* ------------------------------------- the statistics engine on its own

\* Prices around 100, with 5% and a little more on either side, and 98, 5%
\* above the mean of 80, 80 and 120.
StatPrices == {94, 95, 98, 100, 105, 106}

\* The price lists of up to n prices.
Series(prices, n) == UNION {[1..m -> prices] : m \in 0..n}

\* The older sets a trend is taken against.
OlderSeries == {<< >>, <<100>>, <<100, 100>>, <<95, 105>>, <<80, 80, 120>>}

\* The arguments of a call are chosen; nothing has been computed.
InitStats ==
    /\ flights = << >>
    /\ price_analytics = [id \in RouteIds |-> NoAnalytics]
    /\ price_changes = << >>
    /\ notifications = << >>
    /\ pushcut = 0
    /\ now = 0
    /\ \E prices \in Series(StatPrices, MaxBatch), olderPrices \in OlderSeries :
          ret = [op |-> "arguments", prices |-> prices, olderPrices |-> olderPrices]
    /\ ev = [k \in Evaluators |-> Idle]
    /\ WebScraperInit

\* A call of calculateAdvancedStats (part_001 lines 94-126).
StatsCall ==
    /\ ret.op = "arguments"
    /\ ret' = [op |-> "calculateAdvancedStats", prices |-> ret.prices,
               value |-> CalculateAdvancedStats(ret.prices)]
    /\ UNCHANGED <<flights, price_analytics, price_changes, notifications,
                   pushcut, now, ev>>

\* A call of calculateTrend (part_001 lines 129-140).
TrendCall ==
    /\ ret.op = "arguments"
    /\ \E value \in CalculateTrend(ret.prices, ret.olderPrices) :
          ret' = [op |-> "calculateTrend", recentPrices |-> ret.prices,
                  olderPrices |-> ret.olderPrices, value |-> value]
    /\ UNCHANGED <<flights, price_analytics, price_changes, notifications,
                   pushcut, now, ev>>

NextStats ==
    \/ StatsCall /\ WebScraperIdle
    \/ TrendCall /\ WebScraperIdle

SpecStats == InitStats /\ [][NextStats]_vars

\* --------------------------------- the refresh of a store with a history

\* How long before the present a stored sample was observed, in hours: just
\* now, within the day, a day, seven days and fourteen days ago.
SampleAges == {0, 6, 12, Last24Hours, Last7dHours, Older7dHours}

\* The present instant of a store that has samples of every age.
HistoryNow == Older7dHours

\* The samples of the first route's history.
HistorySamples == {[price |-> p, age |-> a] : p \in Prices, a \in SampleAges}

\* The store holding the samples, each stamped with the instant it was
\* observed at (part_000 line 242).
HistoryStore(samples, route, at) ==
    [i \in 1..Len(samples) |->
        [route |-> route, price |-> samples[i].price,
         currency |-> "MXN", link |-> HttpsLink,
         updated_at |-> at - samples[i].age]]

\* Up to MaxBatch samples of one route are stored; no refresh has run.
InitHistory ==
    /\ \E n \in 1..MaxBatch, route \in Routes :
          \E samples \in [1..n -> HistorySamples] :
              flights = HistoryStore(samples, route, HistoryNow)
    /\ now = HistoryNow
    /\ price_analytics = [id \in RouteIds |-> NoAnalytics]
    /\ price_changes = << >>
    /\ notifications = << >>
    /\ pushcut = 0
    /\ ret = NoRet
    /\ ev = [k \in Evaluators |-> Idle]
    /\ WebScraperInit

\* updatePriceAnalytics is called, again and again, for a route with
\* samples or for one without; the store and the clock stay as they are.
NextHistory ==
    \E route \in BatchRoutes :
       \E pricesError \in BOOLEAN, selectError \in BOOLEAN, writeError \in BOOLEAN :
          /\ UpdatePriceAnalytics(route, pricesError, selectError, writeError)
          /\ UNCHANGED ev /\ WebScraperIdle

SpecHistory == InitHistory /\ [][NextHistory]_vars

\* ------------------------- the evaluation of a store with equal instants

\* The samples of a date's routes, observed now or a tick ago.
LatestSamples ==
    {[route |-> r, price |-> p, age |-> a] :
        r \in {x \in BatchRoutes : x.flight_date \in FlightDates(Routes)},
        p \in Prices, a \in {0, TickHours}}

\* Up to MaxBatch samples are stored, some of them at the same instant; no
\* evaluation has run.
InitLatest ==
    /\ \E n \in 1..MaxBatch :
          \E samples \in [1..n -> LatestSamples] :
              flights = [i \in 1..n |->
                            [route |-> samples[i].route, price |-> samples[i].price,
                             currency |-> "MXN", link |-> HttpsLink,
                             updated_at |-> TickHours - samples[i].age]]
    /\ now = TickHours
    /\ price_analytics = [id \in RouteIds |-> NoAnalytics]
    /\ price_changes = << >>
    /\ notifications = << >>
    /\ pushcut = 0
    /\ ret = NoRet
    /\ ev = [k \in Evaluators |-> Idle]
    /\ WebScraperInit

SpecLatest == InitLatest /\ [][NextBatch]_vars

\* ------------------------------------------------- web scraper (part_000)

\* The route a job scrapes: its origin_city, destination_city and
\* flight_date, which no code changes.
JobRoute(id) == CHOOSE route \in Routes : TRUE

\* The engine's tables, clock and runs stay as they are.
EngineIdle ==
    UNCHANGED <<flights, price_analytics, price_changes, notifications, pushcut, now, ev>>

\* The jobs the store can hand out.
PendingJobs(table) == {id \in JobIds : table[id].status = "pending"}

\* rpc claim_next_pending_job(p_instance_id), called at lines 157 and 175:
\* a stored procedure of the database.  By its name, its call sites ("atomic
\* job claiming con FOR UPDATE SKIP LOCKED") and the columns
\* resetJobsToPending clears, it marks one pending job 'processing' for the
\* instance, in one step, and returns the row.
ClaimNextPendingJob(table, id, instance) ==
    [table EXCEPT ![id].status = "processing",
                  ![id].processing_instance_id = instance]

\* The job an instance holds: the row the claim returned.
ClaimedJob(table, id) ==
    [id |-> id, attempts |-> table[id].attempts, iterations |-> table[id].iterations]

\* attempts = null of updateJobStatus.
NoAttempts == 0 - 1

\* updateJobStatus(jobId, status, attempts), lines 202-230: the update of
\* status, and of attempts when given; an error leaves the row as it is.
UpdateJobStatus(table, jobId, status, attempts, error) ==
    IF error THEN table
    ELSE [table EXCEPT ![jobId].status = status,
                       ![jobId].attempts = IF attempts = NoAttempts THEN @ ELSE attempts]

\* One update of resetJobsToPending (lines 88-97 and 113-122): every job of
\* the status becomes pending, claimed by nobody.
ResetStatus(table, status) ==
    [id \in JobIds |->
        IF table[id].status = status
        THEN [table[id] EXCEPT !.status = "pending",
                               !.processing_instance_id = NoInstance]
        ELSE table[id]]

\* The rows such an update returns.
CountStatus(table, status) == Cardinality({id \in JobIds : table[id].status = status})

\* runWebScraper returns: the instance rests, its timers pending.
Returns(k, value) ==
    /\ ws' = [ws EXCEPT ![k] = [pc |-> "idle", timers |-> ws[k].timers]]
    /\ ret' = [op |-> "runWebScraper", value |-> value]

\* getNextPendingJob, lines 151-167 and 190-193: the first call of the rpc.
\* An error returns null; a claimed job is returned; without a pending job
\* resetJobsToPending is called.
GetNextPendingJob(k, error) ==
    /\ ws[k].pc = "idle"
    /\ IF error
       THEN Returns(k, "null") /\ UNCHANGED config_flights
       ELSE IF PendingJobs(config_flights) = {}
       THEN /\ ws' = [ws EXCEPT ![k] = [pc |-> "resetCompleted", timers |-> ws[k].timers]]
            /\ ret' = [op |-> "getNextPendingJob", value |-> "none"]
            /\ UNCHANGED config_flights
       ELSE \E id \in PendingJobs(config_flights) :
               /\ config_flights' = ClaimNextPendingJob(config_flights, id, k)
               /\ ws' = [ws EXCEPT ![k] = [pc |-> "processing", timers |-> ws[k].timers,
                                           job |-> ClaimedJob(config_flights, id)]]
               /\ ret' = [op |-> "getNextPendingJob", value |-> id]
    /\ EngineIdle

\* resetJobsToPending, lines 87-110: the completed jobs become pending.
ResetCompleted(k, completedError) ==
    /\ ws[k].pc = "resetCompleted"
    /\ config_flights' = IF completedError THEN config_flights
                         ELSE ResetStatus(config_flights, "completed")
    /\ ws' = [ws EXCEPT ![k] =
                 [pc |-> "resetProcessing", timers |-> ws[k].timers,
                  totalReset |-> IF completedError THEN 0
                                 ELSE CountStatus(config_flights, "completed")]]
    /\ ret' = [op |-> "resetJobsToPending", status |-> "completed"]
    /\ EngineIdle

\* resetJobsToPending, lines 112-143, and getNextPendingJob, lines 170-172
\* and 187: the processing jobs become pending, whoever holds them; when
\* nothing was reset getNextPendingJob returns null.
ResetProcessing(k, processingError) ==
    LET totalReset == ws[k].totalReset
                          + IF processingError THEN 0
                            ELSE CountStatus(config_flights, "processing")
    IN  /\ ws[k].pc = "resetProcessing"
        /\ config_flights' = IF processingError THEN config_flights
                             ELSE ResetStatus(config_flights, "processing")
        /\ IF totalReset = 0
           THEN Returns(k, "null")
           ELSE /\ ws' = [ws EXCEPT ![k] = [pc |-> "retry", timers |-> ws[k].timers]]
                /\ ret' = [op |-> "resetJobsToPending", status |-> "processing"]
        /\ EngineIdle

\* getNextPendingJob, lines 173-187: the second call of the rpc, after a
\* reset.
RetryClaim(k, retryError) ==
    /\ ws[k].pc = "retry"
    /\ IF retryError \/ PendingJobs(config_flights) = {}
       THEN Returns(k, "null") /\ UNCHANGED config_flights
       ELSE \E id \in PendingJobs(config_flights) :
               /\ config_flights' = ClaimNextPendingJob(config_flights, id, k)
               /\ ws' = [ws EXCEPT ![k] = [pc |-> "processing", timers |-> ws[k].timers,
                                           job |-> ClaimedJob(config_flights, id)]]
               /\ ret' = [op |-> "getNextPendingJob", value |-> id]
    /\ EngineIdle

\* runWebScraper, lines 498-500: the job is marked processing.
MarkProcessing(k, error) ==
    /\ ws[k].pc = "processing"
    /\ config_flights' = UpdateJobStatus(config_flights, ws[k].job.id, "processing",
                                         NoAttempts, error)
    /\ ws' = [ws EXCEPT ![k].pc = "scrape"]
    /\ ret' = [op |-> "updateJobStatus", value |-> ~error]
    /\ EngineIdle

\* The prices the tab of the page may show: parseInt of its digits.
CapturedPrices == {0, 4500}

\* scrapeFlight(job), lines 269-484, with a price captured: the observation
\* is handed to savePriceToSupabase, whose return value is dropped, and
\* success is true (lines 446-457).
ScrapeFlightFound(k, capturedPrice, insertError) ==
    /\ ws[k].pc = "scrape"
    /\ SavePriceData(Scraped(JobRoute(ws[k].job.id), capturedPrice), insertError)
    /\ ws' = [ws EXCEPT ![k] = [pc |-> "final", timers |-> ws[k].timers,
                                job |-> ws[k].job, success |-> TRUE]]
    /\ UNCHANGED config_flights

\* scrapeFlight(job) without a price: the tab never shows, or the page
\* throws (lines 466-477); success is false.
ScrapeFlightFails(k) ==
    /\ ws[k].pc = "scrape"
    /\ ws' = [ws EXCEPT ![k] = [pc |-> "final", timers |-> ws[k].timers,
                                job |-> ws[k].job, success |-> FALSE]]
    /\ ret' = [op |-> "scrapeFlight", value |-> FALSE]
    /\ UNCHANGED config_flights
    /\ EngineIdle

\* runWebScraper, lines 506-525: after a success the job is completed and
\* its iterations are those of the claimed row plus one.
FinalCompleted(k, error) ==
    LET job == ws[k].job
    IN  /\ ws[k].pc = "final" /\ ws[k].success
        /\ job.iterations < MaxIterations
        /\ config_flights' =
               IF error THEN config_flights
               ELSE [config_flights EXCEPT ![job.id].status = "completed",
                                           ![job.id].iterations = job.iterations + 1]
        /\ Returns(k, "success")
        /\ EngineIdle

\* runWebScraper, lines 526-541: after a failure the job is failed with the
\* attempts of the claimed row plus one; under RetryLimit a timer is set.
FinalFailed(k, error) ==
    LET job == ws[k].job
        newAttempts == job.attempts + 1
    IN  /\ ws[k].pc = "final" /\ ~ws[k].success
        /\ job.attempts < MaxFailures
        /\ config_flights' = UpdateJobStatus(config_flights, job.id, "failed",
                                             newAttempts, error)
        /\ ws' = [ws EXCEPT ![k] =
                     [pc |-> "idle",
                      timers |-> IF newAttempts < RetryLimit
                                 THEN ws[k].timers \cup {[id |-> job.id, attempts |-> newAttempts]}
                                 ELSE ws[k].timers]]
        /\ ret' = [op |-> "runWebScraper", value |-> "failure"]
        /\ EngineIdle

\* The callback of setTimeout, lines 535-537: the job is pending again, with
\* the attempts of the failure.
RetryTimer(k, timer, error) ==
    /\ timer \in ws[k].timers
    /\ config_flights' = UpdateJobStatus(config_flights, timer.id, "pending",
                                         timer.attempts, error)
    /\ ws' = [ws EXCEPT ![k].timers = @ \ {timer}]
    /\ ret' = [op |-> "updateJobStatus", value |-> ~error]
    /\ EngineIdle

\* Instances of the web scraper run side by side, each calling runWebScraper
\* again and again.
NextWebScraper ==
    \E k \in Instances :
       \/ \E error \in BOOLEAN : GetNextPendingJob(k, error)
       \/ \E completedError \in BOOLEAN : ResetCompleted(k, completedError)
       \/ \E processingError \in BOOLEAN : ResetProcessing(k, processingError)
       \/ \E retryError \in BOOLEAN : RetryClaim(k, retryError)
       \/ \E error \in BOOLEAN : MarkProcessing(k, error)
       \/ \E capturedPrice \in CapturedPrices, insertError \in BOOLEAN :
             ScrapeFlightFound(k, capturedPrice, insertError)
       \/ ScrapeFlightFails(k)
       \/ \E error \in BOOLEAN : FinalCompleted(k, error)
       \/ \E error \in BOOLEAN : FinalFailed(k, error)
       \/ \E timer \in ws[k].timers, error \in BOOLEAN : RetryTimer(k, timer, error)

SpecWebScraper == Init /\ [][NextWebScraper]_vars

\* ------------------------------------------------------------------ claims

Detected == ret.op = "detectPriceChanges" /\ ret.ok

\* C1: for every analytics record and every new price, detectPriceChanges
\* returns the label of the first matching rule: new_minimum when the price
\* is below all_time_min; otherwise significant_drop when
\* |price - all_time_min| >= alert_threshold; otherwise price_spike when the
\* price exceeds 1.5 times current_avg_price; otherwise normal_fluctuation.
C1_ClassifyPrecedence ==
    Detected =>
        LET a == ret.analytics
            p == ret.newPrice
            below == p < a.all_time_min_price
            far == Abs(p - a.all_time_min_price) >= a.alert_threshold
            spike == 2 * 100 * p > 3 * a.current_avg_price
        IN  /\ below => ret.changeType = "new_minimum"
            /\ (~below /\ far) => ret.changeType = "significant_drop"
            /\ (~below /\ ~far /\ spike) => ret.changeType = "price_spike"
            /\ (~below /\ ~far /\ ~spike) => ret.changeType = "normal_fluctuation"

\* C1 witness: a price that is both below the minimum and a threshold away
\* from it was classified, and so was a spike.
C1_Witness ==
    /\ Detected
    /\ ret.newPrice < ret.analytics.all_time_min_price
    /\ Abs(ret.priceChange) >= ret.analytics.alert_threshold
    /\ ret.changeType = "new_minimum"
    /\ \E i \in 1..Len(price_changes) : price_changes[i].change_type = "price_spike"

\* C2: shouldAlert is true exactly when the label is significant_drop, or the
\* label is new_minimum and |price - all_time_min| >= alert_threshold.
C2_ShouldAlert ==
    Detected =>
        (ret.shouldAlert <=>
            \/ ret.changeType = "significant_drop"
            \/ /\ ret.changeType = "new_minimum"
               /\ Abs(ret.newPrice - ret.analytics.all_time_min_price)
                      >= ret.analytics.alert_threshold)

\* C2 witness: with all_time_min 1000 and threshold 400, price 550 alerted
\* and price 700 before it did not.
C2_Witness ==
    /\ Detected
    /\ ret.analytics.all_time_min_price = 1000
    /\ ret.analytics.alert_threshold = 400
    /\ ret.newPrice = 550 /\ ret.shouldAlert /\ ret.changeType = "new_minimum"
    /\ \E i \in 1..Len(price_changes) :
          /\ price_changes[i].new_price = 700
          /\ price_changes[i].change_type = "new_minimum"
          /\ ~price_changes[i].alert_sent

\* A step of sendPriceAlert (send_notifications.js) for a route and price.
AlertStep(route, price) ==
    /\ ret'.op = "sendPriceAlert" /\ ret'.route = route /\ ret'.price = price
    /\ ret' # ret \/ pushcut' # pushcut

\* The newest row of the route in the table before the step is younger than
\* the cool-down and carries the same price.
RecentSamePrice(route, price) ==
    \E i \in 1..Len(notifications) :
        /\ notifications[i].route = route
        /\ \A j \in (i + 1)..Len(notifications) : notifications[j].route # route
        /\ now - notifications[i].notification_sent_at < CooldownHours
        /\ notifications[i].new_price = price

C4_BlockedLeavesNoTrace ==
    [][\A route \in Routes, price \in ThrottlePrices :
          (AlertStep(route, price) /\ ~ret'.canSend) =>
              /\ pushcut' = pushcut
              /\ notifications' = notifications
              /\ ret'.value = FALSE]_vars

\* C4 witness: a blocked call on a table that holds rows.
C4_Witness ==
    /\ ret.op = "sendPriceAlert" /\ ~ret.canSend /\ ~ret.value
    /\ Len(notifications) > 0 /\ pushcut > 0

C6_EvaluatorDeliveriesThrottled ==
    [][\A k \in Evaluators :
          (ev[k].pc = "alert" /\ ev'[k] # ev[k] /\ pushcut' # pushcut) =>
              ~RecentSamePrice(Head(ev[k].todo).route, Head(ev[k].todo).price)]_vars

\* C7: across refreshes of a route by serialized evaluator runs over a
\* growing sample set, the stored all_time_min never increases and the stored
\* all_time_max never decreases.
C7_AllTimeExtremaMonotone ==
    [][\A r \in Routes :
          (price_analytics[GenerateRouteId(r)].exists /\ price_analytics'[GenerateRouteId(r)].exists) =>
              /\ price_analytics'[GenerateRouteId(r)].all_time_min_price
                     <= price_analytics[GenerateRouteId(r)].all_time_min_price
              /\ price_analytics'[GenerateRouteId(r)].all_time_max_price
                     >= price_analytics[GenerateRouteId(r)].all_time_max_price]_vars

\* C7 witness: a refresh of an existing record has lowered the all-time
\* minimum below the all-time maximum it kept.
C7_Witness ==
    /\ ret.op = "updatePriceAnalytics" /\ ret.ok /\ ~ret.created
    /\ price_analytics[GenerateRouteId(ret.route)].all_time_min_price = ret.currentStats.min
    /\ price_analytics[GenerateRouteId(ret.route)].all_time_min_price
           < price_analytics[GenerateRouteId(ret.route)].all_time_max_price
    /\ flights[Len(flights)].price = ret.currentStats.min

Refreshed == ret.op = "updatePriceAnalytics" /\ ret.ok

\* C8: after every successful refresh of a route, the stored all_time_min is
\* at most, and the stored all_time_max at least, every sample recorded for
\* that route.
C8_ExtremaBoundSamples ==
    Refreshed =>
        \A i \in 1..Len(flights) :
            flights[i].route = ret.route =>
                /\ price_analytics[GenerateRouteId(ret.route)].all_time_min_price <= flights[i].price
                /\ price_analytics[GenerateRouteId(ret.route)].all_time_max_price >= flights[i].price

\* C8 witness: the refresh of an existing record over two samples of
\* different price.
C8_Witness ==
    /\ Refreshed /\ ~ret.created
    /\ \E i, j \in 1..Len(flights) :
          /\ flights[i].route = ret.route /\ flights[j].route = ret.route
          /\ flights[i].price < flights[j].price
          /\ price_analytics[GenerateRouteId(ret.route)].all_time_min_price = flights[i].price
          /\ price_analytics[GenerateRouteId(ret.route)].all_time_max_price = flights[j].price

\* C9: when evaluator runs overlap, no update of the all-time extrema is
\* lost: a write to a route's record never leaves all_time_min above, or
\* all_time_max below, the value the record held before the write.
C9_NoLostUpdate ==
    [][\A r \in Routes, k \in Evaluators :
          (ev[k].pc = "refresh.write" /\ ev'[k] # ev[k] /\ price_analytics[GenerateRouteId(r)].exists) =>
              /\ price_analytics'[GenerateRouteId(r)].all_time_min_price
                     <= price_analytics[GenerateRouteId(r)].all_time_min_price
              /\ price_analytics'[GenerateRouteId(r)].all_time_max_price
                     >= price_analytics[GenerateRouteId(r)].all_time_max_price]_vars

\* C10: a refresh of a route that has a record leaves alert_threshold and
\* total_alerts_sent as they were, whatever their values (a threshold of 0
\* included); a refresh that creates the record gives it the default
\* threshold and total_alerts_sent = 0.
C10_RefreshKeepsThresholdAndCounter ==
    [][\A r \in Routes :
          (ret'.op = "updatePriceAnalytics" /\ ret'.ok /\ ret'.route = r
           /\ price_analytics'[GenerateRouteId(r)] # price_analytics[GenerateRouteId(r)]) =>
              IF price_analytics[GenerateRouteId(r)].exists
              THEN /\ price_analytics'[GenerateRouteId(r)].alert_threshold
                          = price_analytics[GenerateRouteId(r)].alert_threshold
                   /\ price_analytics'[GenerateRouteId(r)].total_alerts_sent
                          = price_analytics[GenerateRouteId(r)].total_alerts_sent
              ELSE /\ price_analytics'[GenerateRouteId(r)].alert_threshold = DefaultThreshold
                   /\ price_analytics'[GenerateRouteId(r)].total_alerts_sent = 0]_vars

\* The store holds exactly the samples 5000, 5400, 4500 of one route, in
\* that order of observation.
Store11 ==
    /\ Len(flights) = 3
    /\ \A i \in 1..3 : flights[i].route \in Routes
    /\ <<flights[1].price, flights[2].price, flights[3].price>> = <<5000, 5400, 4500>>

\* C11: the store holding the samples 5000, 5400, 4500 of one route and no
\* analytics record before, the evaluation of the date that classifies the
\* route raises exactly one alert: its classification is alert-worthy and
\* one delivery is attempted.
C11_BatchRaisesOneAlert ==
    (/\ Store11
     /\ ret.op = "runPriceEvaluator" /\ ret.ok
     /\ Len(price_changes) = 1)
        => (price_changes[1].alert_sent /\ pushcut = 1)

\* Row i of notifications records the price notified at an hour.
Notified(i, price, hour) ==
    /\ i <= Len(notifications)
    /\ notifications[i].route \in Routes
    /\ notifications[i].new_price = price
    /\ notifications[i].notification_sent_at = hour

\* The table after the notification of 1000 at hour 0.
AfterFirst == Len(notifications) = 1 /\ Notified(1, 1000, 0)

\* The table after the notifications of 1000 at hour 0 and 900 at hour 6.
AfterSecond ==
    /\ Len(notifications) = 2
    /\ Notified(1, 1000, 0) /\ Notified(2, 900, TickHours)

\* A call of sendPriceAlert whose lookup of the last notification succeeds.
LookedUp(route, price) ==
    \E hasRouteId \in BOOLEAN, transport \in Transports, insertError \in BOOLEAN :
        SendPriceAlert(route, price, hasRouteId, price + DefaultThreshold,
                       DefaultThreshold, FALSE, transport, insertError)

\* Hours 0 and 6 of the scenario: 1000 at hour 0 is let through to the
\* transport, 1000 at hour 6 is blocked, 900 at hour 6 is let through.
ScenarioUntilSix(route) ==
    /\ (notifications = << >> /\ now = 0 /\ AlertStep(route, 1000))
           => (ret'.canSend /\ pushcut' = pushcut + 1)
    /\ (AfterFirst /\ now = TickHours /\ LookedUp(route, 1000))
           => (~ret'.canSend /\ pushcut' = pushcut)
    /\ (AfterFirst /\ now = TickHours /\ AlertStep(route, 900))
           => (ret'.canSend /\ pushcut' = pushcut + 1)

\* C12 as stated: on one route with no prior record, 1000 at t=0 is
\* delivered, 1000 at t=6h is blocked, 900 at t=6h is allowed and 900 at
\* t=13h is allowed.
C12_ThrottleScenario ==
    [][\A route \in Routes :
          /\ ScenarioUntilSix(route)
          /\ (AfterSecond /\ now = CooldownHours + 1 /\ AlertStep(route, 900))
                 => ret'.canSend]_vars

\* C12 amended: 1000 at t=0 is delivered, 1000 at t=6h is blocked, 900 at
\* t=6h is allowed, and 900 at t=13h is blocked, the latest record being
\* then the one of 900 at 6h, 7 hours old and of the same price; it is
\* allowed at 13h only when the notification of 6h left no record, the
\* latest record being then the one of 1000 at hour 0.
C12_ThrottleScenarioLatestRecord ==
    [][\A route \in Routes :
          /\ ScenarioUntilSix(route)
          /\ (AfterSecond /\ now = CooldownHours + 1 /\ LookedUp(route, 900))
                 => (~ret'.canSend /\ ~ret'.value
                     /\ pushcut' = pushcut /\ notifications' = notifications)
          /\ (AfterFirst /\ now = CooldownHours + 1 /\ AlertStep(route, 900))
                 => ret'.canSend]_vars

\* C12 witness: the four calls were made, the last one blocked at hour 13.
C12_Witness ==
    /\ AfterSecond
    /\ now = CooldownHours + 1
    /\ pushcut = 2
    /\ ret.op = "sendPriceAlert" /\ ret.price = 900 /\ ~ret.canSend

\* detectPriceChanges has classified 1450 against a record with all-time
\* minimum 1000 and average 900 (in hundredths), under a threshold.
Classified1450(threshold) ==
    /\ Detected
    /\ ret.newPrice = 1450
    /\ ret.analytics.all_time_min_price = 1000
    /\ ret.analytics.current_avg_price = 90000
    /\ ret.analytics.alert_threshold = threshold

\* C13 as stated: with all_time_min 1000, threshold 400 and average 900,
\* the price 1450 is classified price_spike and does not alert.
C13_SpikeExample ==
    Classified1450(400) => (ret.changeType = "price_spike" /\ ~ret.shouldAlert)

\* C13 amended: with all_time_min 1000, threshold 400 and average 900, the
\* price 1450 is classified significant_drop and alerts, its distance of 450
\* from the minimum reaching the threshold before the spike rule is tried;
\* under a threshold of 600 it is classified price_spike and does not alert.
C13_ThresholdBeforeSpike ==
    /\ Classified1450(400) =>
          (ret.changeType = "significant_drop" /\ ret.shouldAlert /\ ret.priceChange = 450)
    /\ Classified1450(600) => (ret.changeType = "price_spike" /\ ~ret.shouldAlert)

\* C13 witness: 1450 was classified under threshold 400 and its change row
\* carries the alert.
C13_Witness ==
    /\ Classified1450(400)
    /\ ret.changeType = "significant_drop"
    /\ price_changes[Len(price_changes)].new_price = 1450
    /\ price_changes[Len(price_changes)].alert_sent

\* C14: detectPriceChanges called for a route that has no price_analytics
\* record returns its failure value, never a result that alerts, and
\* inserts no row into price_changes.
C14_NoRecordFails ==
    [][\A route \in Routes :
          (/\ ~price_analytics[GenerateRouteId(route)].exists
           /\ ret'.op = "detectPriceChanges" /\ ret'.route = route
           /\ (ret' # ret \/ price_changes' # price_changes))
              => (~ret'.ok /\ price_changes' = price_changes)]_vars

\* C14 witness: the call for a route without a record has failed and the
\* table of changes is empty.
C14_Witness ==
    /\ ret.op = "detectPriceChanges" /\ ~ret.ok
    /\ ~price_analytics[GenerateRouteId(ret.route)].exists
    /\ price_changes = << >>

\* The number of samples the store holds for a route.
SamplesOf(route) ==
    Cardinality({i \in 1..Len(flights) : flights[i].route = route})

\* C15: in an evaluator run a route whose history is a single sample is
\* never classified alert-worthy, never reaches the alert step and never
\* has a delivery attempted for it.
C15_FirstObservationNeverAlerts ==
    /\ (Detected /\ SamplesOf(ret.route) = 1) => ~ret.shouldAlert
    /\ ret.op = "evaluatorSendPriceAlert" => SamplesOf(ret.route) >= 2
    /\ \A k \in Evaluators :
          ev[k].pc \in {"alert", "count"} => SamplesOf(Head(ev[k].todo).route) >= 2

\* C15 witness: the single sample of a route was classified a second time,
\* against the record an earlier run had created, and a run ended without
\* an alert.
C15_Witness ==
    /\ Len(flights) = 1
    /\ Len(price_changes) = 2
    /\ \A i \in 1..2 : ~price_changes[i].alert_sent
    /\ ret.op = "runPriceEvaluator" /\ ret.ok /\ ret.alertsSent = 0

\* The step appends exactly one row to price_changes and leaves the rows
\* it held as they were.
OneChangeAppended ==
    /\ Len(price_changes') = Len(price_changes) + 1
    /\ SubSeq(price_changes', 1, Len(price_changes)) = price_changes

\* C16 as stated: every evaluation of detectPriceChanges against an existing
\* record appends exactly one row to price_changes, whatever the
\* classification, and no row already there is modified.
C16_EveryClassifyRecorded ==
    [][\A route \in Routes, newPrice \in ClassifyPrices, insertError \in BOOLEAN :
          (/\ price_analytics[GenerateRouteId(route)].exists
           /\ DetectPriceChanges(route, newPrice, FALSE, insertError))
              => OneChangeAppended]_vars

\* C16 amended: an evaluation against an existing record whose insert into
\* price_changes succeeds appends exactly one row, carrying the
\* classification and its shouldAlert, and returns the classification; one
\* whose insert fails appends nothing and returns failure; no step modifies
\* or removes a row already there.
C16_ClassifyRecordedWhenInsertSucceeds ==
    [][/\ \A route \in Routes, newPrice \in ClassifyPrices :
            price_analytics[GenerateRouteId(route)].exists =>
                /\ DetectPriceChanges(route, newPrice, FALSE, FALSE) =>
                      /\ OneChangeAppended
                      /\ ret'.ok
                      /\ LET row == price_changes'[Len(price_changes')]
                         IN  /\ row.route_id = GenerateRouteId(route)
                             /\ row.new_price = newPrice
                             /\ row.change_type = ret'.changeType
                             /\ row.alert_sent = ret'.shouldAlert
                /\ DetectPriceChanges(route, newPrice, FALSE, TRUE) =>
                      (price_changes' = price_changes /\ ~ret'.ok)
       /\ Len(price_changes') >= Len(price_changes)
       /\ SubSeq(price_changes', 1, Len(price_changes)) = price_changes]_vars

\* C16 witness: a classification that alerts and one that does not have
\* each left a row.
C16_Witness ==
    /\ Detected /\ ~ret.shouldAlert
    /\ Len(price_changes) = 2
    /\ price_changes[1].alert_sent
    /\ price_changes[2].change_type = "normal_fluctuation"

\* Evaluator k takes a step from a position of its run.
EvalStep(k, pc) == ev[k].pc = pc /\ ev'[k] # ev[k]

\* C17: the alerts of a run's summary are the routes whose delivery was
\* attempted and answered ok, and alertsSent is their number: the list
\* starts empty, grows by the route of the alert step exactly when that
\* step's POST was answered ok, is left alone by every other step, and is
\* what the summary returns.
C17_SummaryCountsDeliveries ==
    [][\A k \in Evaluators :
          /\ (ev[k].pc \in {"idle", "done"} /\ ev'[k].pc = "refresh")
                 => ev'[k].alerts = << >>
          /\ (EvalStep(k, "refresh") \/ EvalStep(k, "detect"))
                 => ev'[k].alerts = ev[k].alerts
          /\ EvalStep(k, "alert") =>
                 /\ pushcut' = pushcut + 1
                 /\ (ev'[k].pc = "count") <=> (ret'.value /\ ret'.transport = "ok")
                 /\ ev'[k].pc = "count" => ev'[k].todo = ev[k].todo
                 /\ ev'[k].alerts = ev[k].alerts
          /\ EvalStep(k, "count") =>
                 /\ pushcut' = pushcut
                 /\ Len(ev'[k].alerts) = Len(ev[k].alerts) + 1
                 /\ SubSeq(ev'[k].alerts, 1, Len(ev[k].alerts)) = ev[k].alerts
                 /\ ev'[k].alerts[Len(ev'[k].alerts)].route = Head(ev[k].todo).route
                 /\ ev'[k].alerts[Len(ev'[k].alerts)].price = Head(ev[k].todo).price
          /\ EvalStep(k, "summary") =>
                 /\ ret'.op = "runPriceEvaluator" /\ ret'.ok
                 /\ ret'.alerts = ev[k].alerts
                 /\ ret'.alertsSent = Len(ev[k].alerts)]_vars

\* C17 witness: a run over two routes, one of them alert-worthy and its
\* delivery attempted without success, reports no alert sent.
C17_Witness ==
    /\ ret.op = "runPriceEvaluator" /\ ret.ok
    /\ ret.routesAnalyzed = 2
    /\ ret.alertsSent = 0 /\ ret.alerts = << >>
    /\ pushcut = 1
    /\ \E i \in 1..Len(price_changes) : price_changes[i].alert_sent

\* Evaluator k stays on the route it is processing and moves to a position.
Proceeds(k, pc) ==
    /\ ev'[k].pc = pc
    /\ ev'[k].todo = ev[k].todo
    /\ ev'[k].size = ev[k].size

\* Evaluator k leaves the route it is processing for the next route of the
\* date, or for the summary after the last one.
Skips(k) ==
    /\ ev'[k].todo = Tail(ev[k].todo)
    /\ ev'[k].size = ev[k].size
    /\ ev'[k].pc = IF Len(ev[k].todo) > 1 THEN "refresh" ELSE "summary"

\* C18: in a run over several routes a failure of the refresh, of the
\* classification or of the delivery of one route skips that route only:
\* the run goes on to refresh the next route, classifies every route whose
\* refresh succeeds, and ends with the summary over all the routes.
C18_FailureSkipsOnlyTheRoute ==
    [][\A k \in Evaluators :
          /\ EvalStep(k, "refresh") =>
                 IF ret'.ok THEN Proceeds(k, "detect") ELSE Skips(k)
          /\ EvalStep(k, "detect") =>
                 IF ret'.ok /\ ret'.shouldAlert THEN Proceeds(k, "alert") ELSE Skips(k)
          /\ EvalStep(k, "alert") =>
                 IF ret'.value THEN Proceeds(k, "count") ELSE Skips(k)
          /\ EvalStep(k, "count") => Skips(k)
          /\ EvalStep(k, "summary") =>
                 /\ ev[k].todo = << >>
                 /\ ev[k].routesAnalyzed = ev[k].size
                 /\ ret'.op = "runPriceEvaluator" /\ ret'.ok
                 /\ ret'.routesAnalyzed = ev[k].size]_vars

\* C18 witness: of the two routes of a date the one processed first failed
\* and the other, whose sample is the older, was classified; the run
\* returned its summary over both.
C18_Witness ==
    /\ Len(flights) = 2
    /\ flights[1].route # flights[2].route
    /\ ret.op = "runPriceEvaluator" /\ ret.ok /\ ret.routesAnalyzed = 2
    /\ Len(price_changes) = 1
    /\ price_changes[1].route_id = GenerateRouteId(flights[1].route)

\* The rows of an audit table that belong to a route.
RowsOf(table, route) ==
    SelectSeq(table, LAMBDA row : row.route_id = GenerateRouteId(route))

\* C19: a step of the evaluation of route A leaves the analytics record,
\* the change rows and the notification rows of every other route B as
\* they were; what it reads is A's own: the statistics are those of A's
\* samples and the record classified against is A's.
C19_RoutesIsolated ==
    [][\A k \in Evaluators :
          (ev[k].pc \in {"refresh", "detect", "alert", "count"} /\ ev'[k] # ev[k]) =>
              LET A == Head(ev[k].todo).route
              IN  /\ \A B \in BatchRoutes \ {A} :
                        /\ price_analytics'[GenerateRouteId(B)]
                               = price_analytics[GenerateRouteId(B)]
                        /\ RowsOf(price_changes', B) = RowsOf(price_changes, B)
                        /\ RowsOf(notifications', B) = RowsOf(notifications, B)
                  /\ (ev[k].pc = "refresh" /\ ret'.ok) =>
                        ret'.currentStats
                            = CalculateAdvancedStats(PricesOf(RouteRows(flights, A)))
                  /\ (ev[k].pc = "detect" /\ ret'.ok) =>
                        ret'.analytics = price_analytics[GenerateRouteId(A)]]_vars

\* C19 witness: a run over two routes of a date has refreshed and
\* classified both, each against its own record, and notified one of them.
C19_Witness ==
    /\ ret.op = "runPriceEvaluator" /\ ret.ok /\ ret.routesAnalyzed = 2
    /\ Len(price_changes) = 2
    /\ price_changes[1].route_id # price_changes[2].route_id
    /\ price_analytics[price_changes[1].route_id].exists
    /\ price_analytics[price_changes[2].route_id].exists
    /\ price_analytics[price_changes[1].route_id].all_time_min_price
           # price_analytics[price_changes[2].route_id].all_time_min_price
    /\ Len(notifications) = 1

\* The observation a stored row carries, as validateFlightData reads it.
Stored(row) ==
    [from |-> row.route.from, to |-> row.route.to,
     flight_date |-> row.route.flight_date, price |-> Number(row.price),
     currency |-> row.currency, link |-> row.link]

\* C20: an observation that fails validation (empty origin or destination,
\* price not a positive number or above the limit, currency outside MXN, USD,
\* EUR, missing flight date, link that is not https) is never appended to
\* flights by any ingress path: every stored row passes validateFlightData.
C20_OnlyValidObservationsStored ==
    \A i \in 1..Len(flights) : ValidateFlightData(Stored(flights[i]))

\* C21: total_alerts_sent of a route never decreases, whatever evaluator
\* runs overlap (and so it can equal the number of deliveries made for the
\* route).
C21_AlertCounterNeverDecreases ==
    [][\A id \in RouteIds :
          (price_analytics[id].exists /\ price_analytics'[id].exists)
              => price_analytics'[id].total_alerts_sent
                     >= price_analytics[id].total_alerts_sent]_vars

\* The route of an observation.
RouteOf(flightData) ==
    [from |-> flightData.from, to |-> flightData.to,
     flight_date |-> flightData.flight_date]

\* C22: insertFlight sends a price alert only when both hold: the price is
\* the lowest recorded for the route, and it is at least 500 below the
\* highest recorded price of the route.
C22_AlertOnlyLowestWithSavings ==
    [][(ret'.op = "insertFlight" /\ pushcut' = pushcut + 1)
          => LET recorded == PricesOf(RouteRows(flights, RouteOf(ret'.flightData)))
                 price == ret'.flightData.price.value
             IN  /\ recorded # << >>
                 /\ price <= SeqMin(recorded)
                 /\ SeqMax(recorded) - price >= 500]_vars

\* What makes two rows of flights duplicates of each other.
DuplicateKey(row) == <<row.route, row.price, row.link>>

\* C23: insertFlight inserts a price only if it is unique: no call, one
\* whose duplicate check errored included, appends a row whose (from, to,
\* price, link, flight_date) a stored row already has.
C23_InsertFlightNeverDuplicates ==
    [][(ret'.op = "insertFlight" /\ Len(flights') = Len(flights) + 1)
          => \A i \in 1..Len(flights) :
                DuplicateKey(flights[i]) # DuplicateKey(flights'[Len(flights')])]_vars

\* A call of updatePriceAnalytics has just returned.
RefreshReturned == ret.op = "updatePriceAnalytics"

\* C24: refreshAnalytics for a route with zero samples fails and neither
\* creates nor modifies the route's analytics record.
C24_NoSamplesNoRecord ==
    [][(RefreshReturned' /\ SamplesOf(ret'.route) = 0)
          => (~ret'.ok /\ price_analytics' = price_analytics)]_vars

\* C24 witness: a refresh of a route without samples has failed, leaving it
\* without a record, in a store that has a refreshed route.
C24_Witness ==
    /\ RefreshReturned /\ ~ret.ok
    /\ SamplesOf(ret.route) = 0
    /\ ~price_analytics[GenerateRouteId(ret.route)].exists
    /\ \E route \in Routes : price_analytics[GenerateRouteId(route)].exists

\* The columns a refresh computes from the samples and the clock alone,
\* trend_24h apart.
Computed(record) ==
    <<record.current_min_price, record.current_max_price,
      record.current_avg_price, record.current_median_price,
      record.price_volatility, record.all_time_min_price,
      record.all_time_max_price, record.samples_last_24h,
      record.samples_last_7d, record.trend_7d>>

\* A successful refresh of a route that has a record: with the store and the
\* clock fixed, a call after the first.
RefreshedAgain ==
    /\ RefreshReturned' /\ ret'.ok
    /\ price_analytics[GenerateRouteId(ret'.route)].exists

\* C25: refreshAnalytics is idempotent for a fixed sample set and fixed now:
\* a second call leaves current min/max/avg/median/volatility, all-time
\* min/max, window counts and both trend labels as the first call stored
\* them.
C25_RefreshIdempotent ==
    [][RefreshedAgain =>
          LET id == GenerateRouteId(ret'.route)
          IN  /\ Computed(price_analytics'[id]) = Computed(price_analytics[id])
              /\ price_analytics'[id].trend_24h = price_analytics[id].trend_24h]_vars

\* The samples of the route's last 24 hours have distinct instants.
DistinctLast24h(route) ==
    LET last24h == Last24h(RouteRows(flights, route), now)
    IN  \A i, j \in 1..Len(last24h) :
           i # j => last24h[i].updated_at # last24h[j].updated_at

\* C25, amended: for a fixed sample set and fixed now a second call leaves
\* current min/max/avg/median/volatility, all-time min/max, window counts
\* and trend_7d as the first call stored them; trend_24h too when no two
\* samples of the last 24 hours were observed at the same instant (the store
\* may answer such samples in either order, and trend_24h splits the answer
\* by position).
C25_RefreshIdempotentUpToTies ==
    [][RefreshedAgain =>
          LET id == GenerateRouteId(ret'.route)
          IN  /\ Computed(price_analytics'[id]) = Computed(price_analytics[id])
              /\ DistinctLast24h(ret'.route) =>
                    price_analytics'[id].trend_24h = price_analytics[id].trend_24h]_vars

\* C25 witness: a second refresh of a route with samples of different
\* prices and instants has succeeded, its 24-hour trend not stable.
C25_Witness ==
    /\ RefreshReturned /\ ret.ok /\ ~ret.created
    /\ DistinctLast24h(ret.route)
    /\ ret.currentStats.min < ret.currentStats.max
    /\ ret.trends.trend24h # "stable"

\* C26: calculateTrend returns 'up' exactly when mean(recent) exceeds
\* mean(older) by more than 5% of mean(older), 'down' exactly when it is
\* lower by more than 5%, and 'stable' otherwise, exactly +5% and -5%
\* included; with either set empty it returns 'stable'.  The means R / n and
\* O / m are compared after multiplying by 20 * n * m.
C26_TrendLabels ==
    ret.op = "calculateTrend" =>
        LET n == Len(ret.recentPrices)
            m == Len(ret.olderPrices)
            R == SeqSum(ret.recentPrices)
            O == SeqSum(ret.olderPrices)
            above == 20 * R * m > 21 * O * n
            below == 20 * R * m < 19 * O * n
        IN  IF n = 0 \/ m = 0
            THEN ret.value = "stable"
            ELSE /\ ret.value = "up" <=> above
                 /\ ret.value = "down" <=> below
                 /\ ret.value = "stable" <=> (~above /\ ~below)

\* The k-th smallest of the prices: fewer than k prices are below it and at
\* least k are not above it.
Kth(prices, k) ==
    CHOOSE x \in {prices[i] : i \in 1..Len(prices)} :
        /\ Cardinality({i \in 1..Len(prices) : prices[i] < x}) < k
        /\ Cardinality({i \in 1..Len(prices) : prices[i] <= x}) >= k

\* C27: for every non-empty list of prices the statistics satisfy
\* min <= median <= max and min <= mean <= max; the median is the central
\* element of the sorted prices for odd length and the average of the two
\* central ones for even length; for no prices the result is the 'no data'
\* value, not zeros.  avg and median are in hundredths.
C27_StatsOrdered ==
    ret.op = "calculateAdvancedStats" =>
        LET n == Len(ret.prices)
            stats == ret.value
        IN  IF n = 0
            THEN DOMAIN stats = {"samples"} /\ stats.samples = 0
            ELSE /\ 100 * stats.min <= stats.median
                 /\ stats.median <= 100 * stats.max
                 /\ 100 * stats.min <= stats.avg
                 /\ stats.avg <= 100 * stats.max
                 /\ stats.median =
                       IF n % 2 = 1
                       THEN 100 * Kth(ret.prices, (n + 1) \div 2)
                       ELSE 50 * (Kth(ret.prices, n \div 2)
                                     + Kth(ret.prices, n \div 2 + 1))

\* C27 witness: the statistics of an even number of prices whose two central
\* elements differ.
C27_Witness ==
    /\ ret.op = "calculateAdvancedStats"
    /\ Len(ret.prices) = 2
    /\ ret.prices[1] < ret.prices[2]
    /\ 100 * ret.value.min < ret.value.median
    /\ ret.value.median < 100 * ret.value.max


\* The window holds the sample.
Holds(window, row) == \E j \in 1..Len(window) : window[j] = row

\* The hours since the sample was observed.
Age(row) == now - row.updated_at

\* The number of the route's samples younger than so many hours.
Younger(route, hours) ==
    Cardinality({i \in 1..Len(flights) :
                    flights[i].route = route /\ Age(flights[i]) < hours})

\* C28: in a successful refresh every last-24h sample is a last-7d sample;
\* last7d and older7d share no sample; a sample observed exactly 7 days
\* before now is in older7d and not in last7d; a sample observed exactly 14
\* days before now is in neither; and the stored samples_last_24h and
\* samples_last_7d are the sizes of those windows.
C28_Windows ==
    [][(RefreshReturned' /\ ret'.ok) =>
          LET rows == RouteRows(flights, ret'.route)
              last24h == Last24h(rows, now)
              last7d == Last7d(rows, now)
              older7d == Older7d(rows, now)
              record == price_analytics'[GenerateRouteId(ret'.route)]
          IN  /\ \A i \in 1..Len(rows) :
                    /\ Holds(last24h, rows[i]) => Holds(last7d, rows[i])
                    /\ ~(Holds(last7d, rows[i]) /\ Holds(older7d, rows[i]))
                    /\ Age(rows[i]) = Last7dHours =>
                          Holds(older7d, rows[i]) /\ ~Holds(last7d, rows[i])
                    /\ Age(rows[i]) = Older7dHours =>
                          ~Holds(older7d, rows[i]) /\ ~Holds(last7d, rows[i])
              /\ record.samples_last_24h = Len(last24h)
              /\ record.samples_last_7d = Len(last7d)
              /\ Len(last24h) = Younger(ret'.route, Last24Hours)
              /\ Len(last7d) = Younger(ret'.route, Last7dHours)]_vars

\* C28 witness: a refresh has succeeded for a route with a sample of this
\* hour, one of exactly 7 days ago and one of exactly 14 days ago, and has
\* stored one sample for each of the two windows.
C28_Witness ==
    /\ RefreshReturned /\ ret.ok
    /\ \A age \in {0, Last7dHours, Older7dHours} :
          \E i \in 1..Len(flights) :
             flights[i].route = ret.route /\ Age(flights[i]) = age
    /\ price_analytics[GenerateRouteId(ret.route)].samples_last_24h = 1
    /\ price_analytics[GenerateRouteId(ret.route)].samples_last_7d = 1


\* The label is one calculateTrend gives the two sets, and names the side
\* the recent mean lies on: 'up' at 5% above the older mean or more, 'down'
\* at 5% below or more, always so beyond 5%.
TrendOf(label, recentPrices, olderPrices) ==
    LET recent == SeqSum(recentPrices) * Len(olderPrices)
        older == SeqSum(olderPrices) * Len(recentPrices)
    IN  /\ label \in CalculateTrend(recentPrices, olderPrices)
        /\ label = "up" => 20 * recent >= 21 * older
        /\ label = "down" => 20 * recent <= 19 * older
        /\ (Len(recentPrices) > 0 /\ Len(olderPrices) > 0) =>
              /\ 20 * recent > 21 * older => label = "up"
              /\ 20 * recent < 19 * older => label = "down"

\* No sample of the first rows is older than a sample of the rest.
NewestFirst(rows, count) ==
    \A i \in 1..count, j \in (count + 1)..Len(rows) :
       rows[i].updated_at >= rows[j].updated_at

\* C29: in a successful refresh trend_24h is 'stable' when the last-24h
\* window has fewer than 2 samples; otherwise it is the trend of the
\* ceil(n/2) newest samples of the window, as the recent set, against the
\* remaining older samples.  trend_7d is the trend of the last-7d samples
\* against the older7d samples, 'stable' when older7d is empty.
C29_WindowTrends ==
    [][(RefreshReturned' /\ ret'.ok) =>
          LET record == price_analytics'[GenerateRouteId(ret'.route)]
          IN  \E allPrices \in RouteAnswers(flights, ret'.route) :
                 LET last24h == Last24h(allPrices, now)
                     n == Len(last24h)
                     half == IF n % 2 = 0 THEN n \div 2 ELSE n \div 2 + 1
                     last7d == Last7d(allPrices, now)
                     older7d == Older7d(allPrices, now)
                 IN  /\ n < 2 => record.trend_24h = "stable"
                     /\ n >= 2 =>
                           /\ NewestFirst(last24h, half)
                           /\ TrendOf(record.trend_24h,
                                      PricesOf(SubSeq(last24h, 1, half)),
                                      PricesOf(SubSeq(last24h, half + 1, n)))
                     /\ TrendOf(record.trend_7d, PricesOf(last7d), PricesOf(older7d))
                     /\ Len(older7d) = 0 => record.trend_7d = "stable"]_vars

\* C29 witness: a refresh has succeeded for a route with three samples in
\* the last 24 hours, the two newest dearer than the oldest, and has stored
\* 'up' for 24 hours and 'stable' for 7 days.
C29_Witness ==
    /\ RefreshReturned /\ ret.ok
    /\ price_analytics[GenerateRouteId(ret.route)].samples_last_24h = 3
    /\ DistinctLast24h(ret.route)
    /\ price_analytics[GenerateRouteId(ret.route)].trend_24h = "up"
    /\ price_analytics[GenerateRouteId(ret.route)].trend_7d = "stable"


\* The evaluator has loaded the date's flights and built routeMap.
Grouped == ret.op = "runPriceEvaluator.start"

\* The place of the route's first flight in the answer.
FirstOf(answer, key) ==
    CHOOSE i \in 1..Len(answer) :
        /\ RouteKey(answer[i]) = key
        /\ \A j \in 1..(i - 1) : RouteKey(answer[j]) # key

\* C30: for each (origin, destination) of the evaluated date the evaluator
\* keeps one flight, the first of the route in the store's answer, and no
\* sample of the route and date is later than it; the price it passes to
\* detectPriceChanges for the route is the price of that flight.
C30_LatestSamplePassed ==
    [][/\ Grouped' =>
             LET answer == ret'.recentFlights
                 todo == ev'[1].todo
             IN  /\ \A i \in 1..Len(answer) :
                        Cardinality({j \in 1..Len(todo) :
                                        RouteKey(todo[j]) = RouteKey(answer[i])}) = 1
                 /\ \A j \in 1..Len(todo) :
                        /\ todo[j] = answer[FirstOf(answer, RouteKey(todo[j]))]
                        /\ \A i \in 1..Len(flights) :
                              (/\ RouteKey(flights[i]) = RouteKey(todo[j])
                               /\ flights[i].route.flight_date = todo[j].route.flight_date)
                                 => flights[i].updated_at <= todo[j].updated_at
       /\ (ev[1].pc = "detect" /\ ret'.op = "detectPriceChanges") =>
             /\ ret'.route = Head(ev[1].todo).route
             /\ ret'.newPrice = Head(ev[1].todo).price]_vars

\* C30 witness: a price has been passed to detectPriceChanges for a route
\* with an earlier sample and two samples of different prices at the latest
\* instant.
C30_Witness ==
    /\ ret.op = "detectPriceChanges"
    /\ \E i, j, k \in 1..Len(flights) :
          /\ flights[i].route = ret.route /\ flights[j].route = ret.route
          /\ flights[k].route = ret.route
          /\ flights[i].updated_at = flights[j].updated_at
          /\ flights[i].price # flights[j].price
          /\ flights[k].updated_at < flights[i].updated_at
          /\ ret.newPrice \in {flights[i].price, flights[j].price}


InHands(k, id) ==
    /\ ws[k].pc \in {"processing", "scrape", "final"}
    /\ ws[k].job.id = id

\* C32: a job is never in the hands of two instances at once: from the
\* claim until the instance writes completed or failed, no other instance's
\* getNextPendingJob, its reset and second claim included, claims the job.
C32_OneInstancePerJob ==
    \A id \in JobIds : Cardinality({k \in Instances : InHands(k, id)}) <= 1

\* The instance leaves scrapeFlight.
ScrapeReturns(k) == ws[k].pc = "scrape" /\ ws'[k].pc = "final"

\* C33: runWebScraper marks a job completed, its iterations incremented,
\* only if the scrape appended a sample of the job's route to flights; when
\* savePriceToSupabase refuses the observation or the store refuses the
\* insert, the job is marked failed.
C33_CompletedOnlyWithSample ==
    [][\A k \in Instances :
          /\ (ScrapeReturns(k) /\ ws'[k].success) =>
                /\ Len(flights') = Len(flights) + 1
                /\ flights'[Len(flights')].route = JobRoute(ws[k].job.id)
          /\ (ws[k].pc = "final" /\ ws'[k].pc = "idle") =>
                /\ config_flights'[ws[k].job.id].status = "completed" => ws[k].success
                /\ (~ws[k].success /\ ret'.value = "failure") =>
                      config_flights'[ws[k].job.id].status \in {"failed", config_flights[ws[k].job.id].status}]_vars

\* C34: a job that is failed with RetryLimit attempts or more stays failed.
C34_ExhaustedStaysFailed ==
    [][\A id \in JobIds :
          (config_flights[id].status = "failed" /\ config_flights[id].attempts >= RetryLimit)
              => config_flights'[id].status = "failed"]_vars


\* C35: the throttle fails open: a sendPriceAlert whose lookup of the most
\* recent notification errors or throws is allowed, whatever the table
\* holds, so the POST is made and the call returns the transport's outcome.
C35_ThrottleFailsOpen ==
    [][\A route \in Routes, price \in ThrottlePrices, hasRouteId \in BOOLEAN,
          transport \in Transports, insertError \in BOOLEAN :
          SendPriceAlert(route, price, hasRouteId, price + DefaultThreshold,
                         DefaultThreshold, TRUE, transport, insertError)
              => /\ ret'.canSend
                 /\ pushcut' = pushcut + 1
                 /\ ret'.value = (transport = "ok")]_vars

\* C35 witness: an alert was let through although the route's newest row
\* before it was younger than the cool-down and carried the same price,
\* which only a failed lookup allows.
C35_Witness ==
    /\ ret.op = "sendPriceAlert" /\ ret.canSend /\ ret.hasRouteId /\ ~ret.insertError
    /\ Len(notifications) >= 2
    /\ LET last == notifications[Len(notifications)]
           before == notifications[Len(notifications) - 1]
       IN  /\ last.route = before.route /\ last.new_price = before.new_price
           /\ last.notification_sent_at - before.notification_sent_at < CooldownHours


\* The newest row of the route in the table before the step is younger than
\* the cool-down, carries the price and records the outcome.
RecentOutcome(route, price, outcome) ==
    /\ RecentSamePrice(route, price)
    /\ LastNotification(route).success = outcome

C37_UnrecordedChangeRaisesNoAlert ==
    [][\A k \in Evaluators, analyticsError \in BOOLEAN :
          EvalDetect(k, analyticsError, TRUE) =>
              /\ ~ret'.ok
              /\ price_changes' = price_changes
              /\ pushcut' = pushcut /\ notifications' = notifications
              /\ ev'[k] = NextRoute(ev[k])
              /\ ev'[k].pc # "alert"
              /\ \A i \in 1..Len(ev'[k].todo) :
                    RouteKey(ev'[k].todo[i]) # RouteKey(Head(ev[k].todo))]_vars

\* C37 witness: detectPriceChanges has failed for a price that the route's
\* record makes alert-worthy, and the run has left the route without a POST
\* or a notification row.
C37_Witness ==
    /\ ret.op = "detectPriceChanges" /\ ~ret.ok
    /\ price_analytics[GenerateRouteId(ret.route)].exists
    /\ Classify(price_analytics[GenerateRouteId(ret.route)], ret.newPrice).shouldAlert
    /\ ev[1].pc = "summary"
    /\ pushcut = 0 /\ notifications = << >> /\ price_changes = << >>


\* C38: every notification row the evaluator writes has old_price -
\* new_price = price_drop with price_drop at least the route's
\* alert_threshold, and its old_price is the price the classification
\* compared against: the record's all_time_min_price, which is the old_price
\* of the change record of that classification.
C38_NotificationOldPriceIsReference ==
    [][\A k \in Evaluators :
          (EvalStep(k, "alert") /\ Len(notifications') = Len(notifications) + 1) =>
              LET row == notifications'[Len(notifications')]
                  record == price_analytics[GenerateRouteId(row.route)]
                  change == price_changes[Len(price_changes)]
              IN  /\ row.old_price - row.new_price = row.price_drop
                  /\ row.price_drop >= record.alert_threshold
                  /\ change.route_id = row.route_id /\ change.new_price = row.new_price
                  /\ row.old_price = record.all_time_min_price
                  /\ row.old_price = change.old_price]_vars

====
